---- MODULE Spec2Model ----
(***************************************************************************)
(* State-machine model of the recommendation service                       *)
(* (backend/services/recommendation-service): the RecommendationEngine     *)
(* orchestrator with its PreferenceLearningService and                     *)
(* CollaborativeFilteringService stores.                                   *)
(*                                                                         *)
(* Numbers that are floats in the program are exact rationals <<n, d>>     *)
(* (d > 0, reduced).  Texts that the program searches with `in` are        *)
(* sequences of one-character strings.  Time is counted in hours.          *)
(***************************************************************************)
EXTENDS Integers, Sequences, FiniteSets, TLC

(***************************************************************************)
(* Exact rational arithmetic                                               *)
(***************************************************************************)
Abs(x) == IF x < 0 THEN -x ELSE x

RECURSIVE GCD(_, _)
GCD(a, b) == IF b = 0 THEN a ELSE GCD(b, a % b)

\* n/d in lowest terms with a positive denominator, g being gcd(|n|, |d|)
Reduced(n, d, g) ==
    IF n = 0 THEN <<0, 1>>
    ELSE IF d < 0 THEN <<(-n) \div g, (-d) \div g>>
    ELSE <<n \div g, d \div g>>

Rat(n, d) == Reduced(n, d, GCD(Abs(n), Abs(d)))

RZero == <<0, 1>>
ROne == <<1, 1>>
RInt(n) == <<n, 1>>
\* sums and comparisons go through the least common denominator and
\* products cancel crosswise first, so that intermediate values stay small
RAddOver(a, b, g) ==
    Rat(a[1] * (b[2] \div g) + b[1] * (a[2] \div g), (a[2] \div g) * b[2])
RAdd(a, b) == RAddOver(a, b, GCD(a[2], b[2]))
RSub(a, b) == RAdd(a, <<-b[1], b[2]>>)
RMulOver(a, b, g1, g2) ==
    IF a[1] = 0 \/ b[1] = 0 THEN <<0, 1>>
    ELSE <<(a[1] \div g1) * (b[1] \div g2), (a[2] \div g2) * (b[2] \div g1)>>
RMul(a, b) == RMulOver(a, b, GCD(Abs(a[1]), b[2]), GCD(Abs(b[1]), a[2]))
RDiv(a, b) == RMul(a, IF b[1] < 0 THEN <<-b[2], -b[1]>> ELSE <<b[2], b[1]>>)
RLtOver(a, b, g) == a[1] * (b[2] \div g) < b[1] * (a[2] \div g)
RLt(a, b) == RLtOver(a, b, GCD(a[2], b[2]))
RLeOver(a, b, g) == a[1] * (b[2] \div g) <= b[1] * (a[2] \div g)
RLe(a, b) == RLeOver(a, b, GCD(a[2], b[2]))
RAbs(a) == <<Abs(a[1]), a[2]>>
RMax(a, b) == IF RLt(a, b) THEN b ELSE a
RMin(a, b) == IF RLt(b, a) THEN b ELSE a

(***************************************************************************)
(* Texts: str.lower() and the substring test `needle in text`              *)
(***************************************************************************)
UpperChars ==
    <<"A", "B", "C", "D", "E", "F", "G", "H", "I", "J", "K", "L", "M", "N",
      "O", "P", "Q", "R", "S", "T", "U", "V", "W", "X", "Y", "Z">>

LowerChars ==
    <<"a", "b", "c", "d", "e", "f", "g", "h", "i", "j", "k", "l", "m", "n",
      "o", "p", "q", "r", "s", "t", "u", "v", "w", "x", "y", "z">>

LowerChar(c) ==
    IF \E k \in 1..Len(UpperChars) : UpperChars[k] = c
    THEN LowerChars[CHOOSE k \in 1..Len(UpperChars) : UpperChars[k] = c]
    ELSE c

Lower(text) == [k \in 1..Len(text) |-> LowerChar(text[k])]

Contains(text, needle) ==
    \E k \in 0..(Len(text) - Len(needle)) :
        \A j \in 1..Len(needle) : text[k + j] = needle[j]

(***************************************************************************)
(* The item catalog loaded by _initialize_mock_data                        *)
(***************************************************************************)
Item1 ==
    [id |-> "item_1",
     name |-> <<"V", "i", "c", "t", "o", "r", "i", "a", " ", "P", "e", "a",
          "k">>,
     location |-> [latitude |-> 222783, longitude |-> 1141747],
     type |-> "attraction",
     description |->
        <<"I", "c", "o", "n", "i", "c", " ", "m", "o", "u", "n", "t", "a",
          "i", "n", " ", "p", "e", "a", "k", " ", "w", "i", "t", "h", " ",
          "p", "a", "n", "o", "r", "a", "m", "i", "c", " ", "c", "i", "t",
          "y", " ", "v", "i", "e", "w", "s">>,
     rating |-> Rat(45, 10),
     categories |-> <<"outdoor", "scenic", "tourist", "mountain">>,
     estimated_duration |-> 180, estimated_cost |-> 65,
     weather_dependent |-> TRUE, crowd_level |-> "high",
     local_authenticity_score |-> Rat(6, 10)]

Item2 ==
    [id |-> "item_2",
     name |-> <<"T", "i", "m", " ", "H", "o", " ", "W", "a", "n">>,
     location |-> [latitude |-> 222793, longitude |-> 1141628],
     type |-> "restaurant",
     description |->
        <<"M", "i", "c", "h", "e", "l", "i", "n", "-", "s", "t", "a", "r",
          "r", "e", "d", " ", "d", "i", "m", " ", "s", "u", "m", " ", "r",
          "e", "s", "t", "a", "u", "r", "a", "n", "t">>,
     rating |-> Rat(43, 10),
     categories |-> <<"dining", "dim sum", "local", "authentic">>,
     estimated_duration |-> 90, estimated_cost |-> 150,
     weather_dependent |-> FALSE, crowd_level |-> "moderate",
     local_authenticity_score |-> Rat(9, 10)]

Item3 ==
    [id |-> "item_3",
     name |-> <<"S", "t", "a", "r", " ", "F", "e", "r", "r", "y", " ", "R",
          "i", "d", "e">>,
     location |-> [latitude |-> 222944, longitude |-> 1141694],
     type |-> "activity",
     description |->
        <<"H", "i", "s", "t", "o", "r", "i", "c", " ", "f", "e", "r", "r",
          "y", " ", "c", "r", "o", "s", "s", "i", "n", "g", " ", "V", "i",
          "c", "t", "o", "r", "i", "a", " ", "H", "a", "r", "b", "o", "u",
          "r">>,
     rating |-> Rat(42, 10),
     categories |-> <<"transport", "scenic", "historic", "water">>,
     estimated_duration |-> 30, estimated_cost |-> 3,
     weather_dependent |-> TRUE, crowd_level |-> "low",
     local_authenticity_score |-> Rat(8, 10)]

available_items == <<Item1, Item2, Item3>>

IdsOf(items) == {items[k].id : k \in 1..Len(items)}

ItemIn(items, id) == items[CHOOSE k \in 1..Len(items) : items[k].id = id]

ItemIds == IdsOf(available_items)

ItemById(id) == ItemIn(available_items, id)

(***************************************************************************)
(* PreferenceLearningService.  A learned-preference map is a function from *)
(* the signal keys present in the dict (pairs <<family, name>>, the        *)
(* program's "family_name" strings) to rational weights.                   *)
(***************************************************************************)
learning_rate == Rat(1, 10)
decay_factor == Rat(95, 100)
NoiseFloor == Rat(1, 100)

\* None, and the empty text, are the empty tuple
None == <<>>
EmptyMap == [k \in {} |-> RZero]

\* str.lower() on the category and interest names the model uses
NameLower(name) ==
    CASE name = "Outdoor" -> "outdoor"
      [] name = "Scenic" -> "scenic"
      [] OTHER -> name

\* defaultdict(float): learned_prefs[key] += delta
AddPref(m, key, delta) ==
    [k \in DOMAIN m \cup {key} |->
        IF k # key THEN m[k]
        ELSE RAdd(IF key \in DOMAIN m THEN m[key] ELSE RZero, delta)]

RECURSIVE AddCategories(_, _, _)
AddCategories(m, categories, delta) ==
    IF categories = <<>> THEN m
    ELSE AddCategories(AddPref(m, <<"category", NameLower(Head(categories))>>, delta),
                       Tail(categories), delta)

PLInteractionWeights(interaction_type) ==
    CASE interaction_type = "view" -> Rat(1, 10)
      [] interaction_type = "like" -> Rat(3, 10)
      [] interaction_type = "visit" -> Rat(7, 10)
      [] interaction_type = "rate" -> Rat(10, 10)
      [] interaction_type = "share" -> Rat(4, 10)
      [] interaction_type = "save" -> Rat(5, 10)
      [] OTHER -> Rat(1, 10)

\* base_weight * (rating / 5.0) when the interaction carries a rating
ScaledByRating(base_weight, rating) ==
    IF rating # None THEN RMul(base_weight, RDiv(rating, RInt(5)))
    ELSE base_weight

PLGetInteractionWeight(interaction) ==
    ScaledByRating(PLInteractionWeights(interaction.interaction_type),
                   interaction.rating)

BudgetBucket(item) ==
    IF item.estimated_cost < 100 THEN "low"
    ELSE IF item.estimated_cost < 300 THEN "medium"
    ELSE IF item.estimated_cost < 800 THEN "high"
    ELSE "luxury"

DurationBucket(item) ==
    IF item.estimated_duration < 120 THEN "short"
    ELSE IF item.estimated_duration < 240 THEN "medium"
    ELSE "long"

QualityBucket(item) ==
    IF RLe(Rat(45, 10), item.rating) THEN "high"
    ELSE IF RLe(Rat(35, 10), item.rating) THEN "medium"
    ELSE "low"

AuthenticityBucket(item) ==
    IF RLe(Rat(8, 10), item.local_authenticity_score) THEN "high"
    ELSE IF RLe(Rat(5, 10), item.local_authenticity_score) THEN "medium"
    ELSE "low"

\* the five attribute signals of an item, each moved by d
AddItemAttributes(m, item, d) ==
    AddPref(
        AddPref(
            AddPref(
                AddPref(
                    AddPref(m, <<"budget", BudgetBucket(item)>>, d),
                    <<"duration", DurationBucket(item)>>, d),
                <<"quality", QualityBucket(item)>>, d),
            <<"authenticity", AuthenticityBucket(item)>>, d),
        <<"crowd", item.crowd_level>>, d)

LearnFromItemAttributes(m, item, weight) ==
    AddItemAttributes(m, item, RMul(weight, learning_rate))

\* if field in context: learned_prefs[f"{family}_{context[field].lower()}"] += d
AddContextPref(m, context, field, family, d) ==
    IF field \in DOMAIN context
    THEN AddPref(m, <<family, NameLower(context[field])>>, d)
    ELSE m

AddContextPrefs(m, context, d) ==
    AddContextPref(
        AddContextPref(
            AddContextPref(m, context, "weather", "weather", d),
            context, "time_of_day", "time", d),
        context, "district", "district", d)

\* interaction.context is a dict: a function from its keys to names
LearnFromContext(m, context, weight) ==
    AddContextPrefs(m, context, RMul(weight, learning_rate))

\* if interaction.context: await self._learn_from_context(...)
LearnFromContextIfAny(m, context, weight) ==
    IF DOMAIN context # {} THEN LearnFromContext(m, context, weight) ELSE m

\* the body of the loop of learn_from_interactions for an item that is
\* in the lookup
LearnFromItem(m, item, interaction, weight) ==
    LearnFromContextIfAny(
        LearnFromItemAttributes(
            AddCategories(m, item.categories, RMul(weight, learning_rate)),
            item, weight),
        interaction.context, weight)

LearnOne(m, interaction) ==
    IF interaction.item_id \notin ItemIds THEN m
    ELSE LearnFromItem(m, ItemById(interaction.item_id), interaction,
                       PLGetInteractionWeight(interaction))

RECURSIVE LearnAll(_, _)
LearnAll(m, interactions) ==
    IF interactions = <<>> THEN m
    ELSE LearnAll(LearnOne(m, Head(interactions)), Tail(interactions))

\* if learned_prefs[key] < 0.01: learned_prefs[key] = 0.0
DropNoise(v) == IF RLt(v, NoiseFloor) THEN RZero ELSE v

ApplyTemporalDecay(m, interactions) ==
    IF interactions = <<>> THEN m
    ELSE [key \in DOMAIN m |-> DropNoise(RMul(m[key], decay_factor))]

\* the map learned from the batch alone, what was stored being dropped
LearnFromInteractionsAfresh(ulp, user_id, interactions) ==
    [u \in DOMAIN ulp \cup {user_id} |->
        IF u = user_id
        THEN ApplyTemporalDecay(LearnAll(EmptyMap, interactions), interactions)
        ELSE ulp[u]]

\* learn_from_interactions on the store user_learned_preferences (ulp)
LearnFromInteractions(ulp, user_id, interactions) ==
    LET m0 == IF user_id \in DOMAIN ulp THEN ulp[user_id] ELSE EmptyMap
        m1 == ApplyTemporalDecay(LearnAll(m0, interactions), interactions)
    IN  [u \in DOMAIN ulp \cup {user_id} |->
            IF u = user_id THEN m1 ELSE ulp[u]]

\* the three attribute signals feedback moves, each by d
AddFeedbackAttributes(m, item, d) ==
    AddPref(
        AddPref(
            AddPref(m, <<"budget", BudgetBucket(item)>>, d),
            <<"duration", DurationBucket(item)>>, d),
        <<"crowd", item.crowd_level>>, d)

UpdateAttributePreferences(m, item, feedback_weight) ==
    AddFeedbackAttributes(m, item, RMul(feedback_weight, learning_rate))

positive_keywords ==
    <<[keyword |-> <<"a", "u", "t", "h", "e", "n", "t", "i", "c">>,
       pref_key |-> <<"authenticity", "high">>],
      [keyword |-> <<"l", "o", "c", "a", "l">>,
       pref_key |-> <<"authenticity", "high">>],
      [keyword |-> <<"q", "u", "i", "e", "t">>,
       pref_key |-> <<"crowd", "low">>],
      [keyword |-> <<"p", "e", "a", "c", "e", "f", "u", "l">>,
       pref_key |-> <<"crowd", "low">>],
      [keyword |-> <<"a", "f", "f", "o", "r", "d", "a", "b", "l", "e">>,
       pref_key |-> <<"budget", "low">>],
      [keyword |-> <<"c", "h", "e", "a", "p">>,
       pref_key |-> <<"budget", "low">>],
      [keyword |-> <<"q", "u", "i", "c", "k">>,
       pref_key |-> <<"duration", "short">>],
      [keyword |-> <<"f", "a", "s", "t">>,
       pref_key |-> <<"duration", "short">>],
      [keyword |-> <<"b", "e", "a", "u", "t", "i", "f", "u", "l">>,
       pref_key |-> <<"quality", "high">>],
      [keyword |-> <<"a", "m", "a", "z", "i", "n", "g">>,
       pref_key |-> <<"quality", "high">>],
      [keyword |-> <<"e", "x", "c", "e", "l", "l", "e", "n", "t">>,
       pref_key |-> <<"quality", "high">>]>>

negative_keywords ==
    <<[keyword |-> <<"c", "r", "o", "w", "d", "e", "d">>,
       pref_key |-> <<"crowd", "high">>],
      [keyword |-> <<"b", "u", "s", "y">>,
       pref_key |-> <<"crowd", "high">>],
      [keyword |-> <<"e", "x", "p", "e", "n", "s", "i", "v", "e">>,
       pref_key |-> <<"budget", "high">>],
      [keyword |-> <<"c", "o", "s", "t", "l", "y">>,
       pref_key |-> <<"budget", "high">>],
      [keyword |-> <<"l", "o", "n", "g">>,
       pref_key |-> <<"duration", "long">>],
      [keyword |-> <<"s", "l", "o", "w">>,
       pref_key |-> <<"duration", "long">>],
      [keyword |-> <<"t", "o", "u", "r", "i", "s", "t", "y">>,
       pref_key |-> <<"authenticity", "low">>],
      [keyword |-> <<"f", "a", "k", "e">>,
       pref_key |-> <<"authenticity", "low">>],
      [keyword |-> <<"p", "o", "o", "r">>,
       pref_key |-> <<"quality", "low">>],
      [keyword |-> <<"b", "a", "d">>,
       pref_key |-> <<"quality", "low">>]>>

RECURSIVE ApplyKeywords(_, _, _, _)
ApplyKeywords(m, keywords, feedback_lower, delta) ==
    IF keywords = <<>> THEN m
    ELSE ApplyKeywords(IF Contains(feedback_lower, Head(keywords).keyword)
                       THEN AddPref(m, Head(keywords).pref_key, delta)
                       ELSE m,
                       Tail(keywords), feedback_lower, delta)

\* the positive keywords add d, then the negative ones subtract it
ApplyAllKeywords(m, feedback_lower, d) ==
    ApplyKeywords(ApplyKeywords(m, positive_keywords, feedback_lower, d),
                  negative_keywords, feedback_lower, RSub(RZero, d))

ProcessTextFeedback(m, feedback, feedback_weight) ==
    ApplyAllKeywords(m, Lower(feedback),
                     RMul(RAbs(feedback_weight), learning_rate))

\* the rating scaled as an interaction's is, rating / 5
FeedbackWeightUncentred(rating) == RDiv(rating, RInt(5))

\* the weight with its sign turned: a high rating counts against the item
FeedbackWeightInverted(rating) == RDiv(RSub(RInt(3), rating), RInt(2))

\* feedback_weight = (rating - 3.0) / 2.0
FeedbackWeight(rating) == RDiv(RSub(rating, RInt(3)), RInt(2))

\* the body of update_preferences_from_feedback on one user's map;
\* `if feedback:` is false for None and for the empty text
ProcessTextFeedbackIfAny(m, feedback, feedback_weight) ==
    IF feedback # None THEN ProcessTextFeedback(m, feedback, feedback_weight)
    ELSE m

FeedbackUpdateBy(m, feedback_weight, feedback, recommended_item) ==
    ProcessTextFeedbackIfAny(
        UpdateAttributePreferences(
            AddCategories(m, recommended_item.categories,
                          RMul(feedback_weight, learning_rate)),
            recommended_item, feedback_weight),
        feedback, feedback_weight)

FeedbackUpdate(m, rating, feedback, recommended_item) ==
    FeedbackUpdateBy(m, FeedbackWeight(rating), feedback, recommended_item)

\* get_learned_preferences: the stored map scaled by its largest magnitude
\* max(abs(v) for v in prefs.values()) if prefs else 1.0
MaxMagnitude(prefs) ==
    IF DOMAIN prefs = {} THEN ROne
    ELSE RAbs(prefs[CHOOSE k \in DOMAIN prefs :
                \A j \in DOMAIN prefs : RLe(RAbs(prefs[j]), RAbs(prefs[k]))])

\* the division applied whatever the largest magnitude is
NormalizedAlways(prefs, max_val) ==
    [k \in DOMAIN prefs |-> RDiv(prefs[k], max_val)]

NormalizedBy(prefs, max_val) ==
    IF RLt(ROne, max_val)
    THEN [k \in DOMAIN prefs |-> RDiv(prefs[k], max_val)]
    ELSE prefs

GetLearnedPreferences(ulp, user_id) ==
    IF user_id \notin DOMAIN ulp THEN EmptyMap
    ELSE NormalizedBy(ulp[user_id], MaxMagnitude(ulp[user_id]))

explicit_weight == Rat(15, 10)

\* merged_prefs[key] = merged_prefs.get(key, 0) + explicit_weight
AddExplicit(m, key) == AddPref(m, key, explicit_weight)

RECURSIVE AddInterests(_, _)
AddInterests(m, interests) ==
    IF interests = <<>> THEN m
    ELSE AddInterests(AddExplicit(m, <<"category", NameLower(Head(interests))>>),
                      Tail(interests))

ActivityMapping ==
    [a \in {"low", "moderate", "high", "extreme"} |->
        CASE a = "low" -> "short"
          [] a = "moderate" -> "medium"
          [] OTHER -> "long"]

\* if explicit_prefs.activity_level.value in activity_mapping: ...
AddActivityLevel(m, activity_level) ==
    IF activity_level \in DOMAIN ActivityMapping
    THEN AddExplicit(m, <<"duration", ActivityMapping[activity_level]>>)
    ELSE m

MergeExplicitAndLearnedPreferences(explicit_prefs, learned_prefs) ==
    AddActivityLevel(
        AddExplicit(AddInterests(learned_prefs, explicit_prefs.interests),
                    <<"budget", explicit_prefs.budget_range>>),
        explicit_prefs.activity_level)

RECURSIVE SumSeq(_)
SumSeq(s) == IF s = <<>> THEN RZero ELSE RAdd(Head(s), SumSeq(Tail(s)))

\* the category loop of predict_user_rating: <<score, total_weight>>
RECURSIVE CategoryScore(_, _, _)
CategoryScore(merged, categories, acc) ==
    IF categories = <<>> THEN acc
    ELSE LET key == <<"category", NameLower(Head(categories))>>
         IN  CategoryScore(merged, Tail(categories),
                 IF key \in DOMAIN merged
                 THEN <<RAdd(acc[1], merged[key]), RAdd(acc[2], RAbs(merged[key]))>>
                 ELSE acc)

\* [merged[key]] when the signal is present, else nothing
ScoreOf(merged, key) == IF key \in DOMAIN merged THEN <<merged[key]>> ELSE <<>>

Has(merged, key) == key \in DOMAIN merged

BudgetScore(merged, item) ==
    IF item.estimated_cost < 100 /\ Has(merged, <<"budget", "low">>)
    THEN <<merged[<<"budget", "low">>]>>
    ELSE IF item.estimated_cost < 300 /\ Has(merged, <<"budget", "medium">>)
    THEN <<merged[<<"budget", "medium">>]>>
    ELSE IF item.estimated_cost < 800 /\ Has(merged, <<"budget", "high">>)
    THEN <<merged[<<"budget", "high">>]>>
    ELSE ScoreOf(merged, <<"budget", "luxury">>)

DurationScore(merged, item) ==
    IF item.estimated_duration < 120 /\ Has(merged, <<"duration", "short">>)
    THEN <<merged[<<"duration", "short">>]>>
    ELSE IF item.estimated_duration < 240 /\ Has(merged, <<"duration", "medium">>)
    THEN <<merged[<<"duration", "medium">>]>>
    ELSE ScoreOf(merged, <<"duration", "long">>)

AttributeScores(merged, item) ==
    BudgetScore(merged, item) \o DurationScore(merged, item)
        \o ScoreOf(merged, <<"crowd", item.crowd_level>>)

\* cat is <<score, total_weight>> after the category loop
PredictedRating(merged, cat, attribute_scores) ==
    IF DOMAIN merged = {} THEN RInt(3)
    ELSE IF RLt(RZero, IF attribute_scores # <<>> THEN RAdd(cat[2], ROne)
                       ELSE cat[2])
    THEN RMax(RInt(1),
              RMin(RInt(5),
                   IF attribute_scores # <<>>
                   THEN RAdd(cat[1], RDiv(SumSeq(attribute_scores),
                                          RInt(Len(attribute_scores))))
                   ELSE cat[1]))
    ELSE RInt(3)

PredictFromMerged(merged, item) ==
    PredictedRating(merged,
                    CategoryScore(merged, item.categories, <<RInt(3), RZero>>),
                    AttributeScores(merged, item))

PredictUserRating(ulp, user_id, item, explicit_prefs) ==
    PredictFromMerged(
        MergeExplicitAndLearnedPreferences(
            explicit_prefs, GetLearnedPreferences(ulp, user_id)),
        item)

(***************************************************************************)
(* CollaborativeFilteringService.  Its store is a record                   *)
(* [user_profiles, user_similarities]; user_profiles maps a user id to the *)
(* interaction history the service holds for it.                           *)
(***************************************************************************)
min_interactions == 5

CFInteractionWeights(interaction_type) ==
    CASE interaction_type = "view" -> RInt(1)
      [] interaction_type = "like" -> RInt(2)
      [] interaction_type = "visit" -> RInt(3)
      [] interaction_type = "rate" -> RInt(4)
      [] OTHER -> RInt(1)

CFGetInteractionWeight(interaction) ==
    ScaledByRating(CFInteractionWeights(interaction.interaction_type),
                   interaction.rating)

\* build_user_item_matrix: cell (u, i) is the weight of u's last
\* interaction with i, 0 when there is none
MatrixCell(history, item_id) ==
    LET hits == {k \in 1..Len(history) : history[k].item_id = item_id}
    IN  IF hits = {} THEN RZero
        ELSE CFGetInteractionWeight(
                 history[CHOOSE k \in hits : \A j \in hits : j <= k])

MatrixItems(profiles) ==
    UNION {{profiles[u][k].item_id : k \in 1..Len(profiles[u])} :
              u \in DOMAIN profiles}

RECURSIVE DotOver(_, _, _)
DotOver(items, ha, hb) ==
    IF items = {} THEN RZero
    ELSE LET i == CHOOSE x \in items : TRUE
         IN  RAdd(RMul(MatrixCell(ha, i), MatrixCell(hb, i)),
                  DotOver(items \ {i}, ha, hb))

SimilarityScale == 1000

\* the largest r in lo..hi with r * r <= n, found by bisection
RECURSIVE ISqrtBetween(_, _, _)
ISqrtBetween(n, lo, hi) ==
    IF lo >= hi THEN lo
    ELSE IF ((lo + hi + 1) \div 2) * ((lo + hi + 1) \div 2) <= n
    THEN ISqrtBetween(n, (lo + hi + 1) \div 2, hi)
    ELSE ISqrtBetween(n, lo, ((lo + hi + 1) \div 2) - 1)

ISqrtFrom(n, r) == ISqrtBetween(n, r, SimilarityScale)

\* cosine_similarity of two matrix rows, rounded toward zero to
\* 1/SimilarityScale (0 for a zero row, as sklearn returns)

\* the square root of sq, scaled, with the sign of dot
\* (n * SimilarityScale^2) \div d, by long division to keep the
\* intermediate products small
ScaledSquare(n, d) ==
    ((n * SimilarityScale) \div d) * SimilarityScale
        + (((n * SimilarityScale) % d) * SimilarityScale) \div d

SignedRoot(dot, sq) ==
    Rat((IF dot[1] < 0 THEN -1 ELSE 1)
            * ISqrtFrom(ScaledSquare(sq[1], sq[2]), 0),
        SimilarityScale)

\* dot / sqrt(n2), n2 being the product of the squared norms
CosineOf(dot, n2) ==
    IF n2 = RZero \/ dot = RZero THEN RZero
    ELSE SignedRoot(dot, RDiv(RMul(dot, dot), n2))

CosineSimilarity(items, ha, hb) ==
    CosineOf(DotOver(items, ha, hb),
             RMul(DotOver(items, ha, ha), DotOver(items, hb, hb)))

\* compute_user_similarities over the rebuilt matrix (the catalog is
\* smaller than n_components, so no SVD reduction is applied)
ComputeUserSimilarities(profiles) ==
    LET items == MatrixItems(profiles)
    IN  [a \in DOMAIN profiles |->
            [b \in DOMAIN profiles \ {a} |->
                CosineSimilarity(items, profiles[a], profiles[b])]]

\* the similarities recomputed on every update
UpdateUserInteractionsAlways(cf, user_id, interactions) ==
    LET profiles ==
            [u \in DOMAIN cf.user_profiles \cup {user_id} |->
                IF u # user_id THEN cf.user_profiles[u]
                ELSE IF user_id \in DOMAIN cf.user_profiles
                THEN cf.user_profiles[u] \o interactions
                ELSE interactions]
    IN  [user_profiles |-> profiles,
         user_similarities |-> ComputeUserSimilarities(profiles)]

\* update_user_interactions followed by _incremental_update
UpdateUserInteractions(cf, user_id, interactions) ==
    LET profiles ==
            [u \in DOMAIN cf.user_profiles \cup {user_id} |->
                IF u # user_id THEN cf.user_profiles[u]
                ELSE IF user_id \in DOMAIN cf.user_profiles
                THEN cf.user_profiles[u] \o interactions
                ELSE interactions]
        recompute ==
            /\ Len(interactions) >= min_interactions
            /\ Cardinality(DOMAIN profiles) >= min_interactions
    IN  [user_profiles |-> profiles,
         user_similarities |->
            IF recompute THEN ComputeUserSimilarities(profiles)
            ELSE cf.user_similarities]

\* the neighbours of find_similar_users that interacted with the item
\* (fewer users exist than its top_k of 10, so none is cut off)
NeighboursWith(cf, user_id, item_id) ==
    {v \in DOMAIN cf.user_similarities[user_id] :
        /\ v \in DOMAIN cf.user_profiles
        /\ \E k \in 1..Len(cf.user_profiles[v]) :
               cf.user_profiles[v][k].item_id = item_id}

FirstInteractionWith(history, item_id) ==
    history[CHOOSE k \in 1..Len(history) :
                /\ history[k].item_id = item_id
                /\ \A j \in 1..(k - 1) : history[j].item_id # item_id]

RECURSIVE NeighbourSums(_, _, _, _)
NeighbourSums(cf, user_id, item_id, neighbours) ==
    IF neighbours = {} THEN <<RZero, RZero>>
    ELSE LET v == CHOOSE x \in neighbours : TRUE
             similarity == cf.user_similarities[user_id][v]
             w == CFGetInteractionWeight(
                      FirstInteractionWith(cf.user_profiles[v], item_id))
             rest == NeighbourSums(cf, user_id, item_id, neighbours \ {v})
         IN  <<RAdd(RMul(similarity, w), rest[1]), RAdd(similarity, rest[2])>>

\* an item left out of item_scores instead: it is given the score 0
WeightedAverageOrZero(sums) ==
    IF RLt(RZero, sums[2]) THEN <<RDiv(sums[1], sums[2])>> ELSE <<RZero>>

\* weighted_score / similarity_sum when similarity_sum > 0
WeightedAverage(sums) ==
    IF RLt(RZero, sums[2]) THEN <<RDiv(sums[1], sums[2])>> ELSE <<>>

\* generate_collaborative_recommendations(user_id, [item], top_k=1): the
\* scores returned, <<>> or <<score>>
GenerateCollaborativeRecommendations(cf, user_id, item) ==
    IF user_id \notin DOMAIN cf.user_similarities THEN <<>>
    ELSE IF DOMAIN cf.user_similarities[user_id] = {} THEN <<>>
    ELSE IF user_id \notin DOMAIN cf.user_profiles THEN <<>>
    ELSE IF \E k \in 1..Len(cf.user_profiles[user_id]) :
                cf.user_profiles[user_id][k].item_id = item.id THEN <<>>
    ELSE WeightedAverage(NeighbourSums(cf, user_id, item.id,
                                       NeighboursWith(cf, user_id, item.id)))

(***************************************************************************)
(* ContentBasedFilteringService: the preference boost applied to the       *)
(* cosine similarity of the user vector and the item vector                *)
(***************************************************************************)
RECURSIVE NamesLower(_)
NamesLower(names) ==
    IF names = <<>> THEN {}
    ELSE {NameLower(Head(names))} \cup NamesLower(Tail(names))

BoostBudgetRange(budget_range) ==
    CASE budget_range = "low" -> <<0, 100>>
      [] budget_range = "medium" -> <<50, 300>>
      [] budget_range = "high" -> <<200, 800>>
      [] budget_range = "luxury" -> <<500, -1>>
      [] OTHER -> <<0, -1>>

ActivityDuration(activity_level) ==
    CASE activity_level = "low" -> 120
      [] activity_level = "moderate" -> 240
      [] activity_level = "high" -> 480
      [] activity_level = "extreme" -> 720
      [] OTHER -> 240

InterestBoost(item_categories, user_interests) ==
    IF item_categories \cap user_interests # {} THEN Rat(12, 10) ELSE ROne

\* b is the budget band; an upper bound of -1 stands for float('inf')
BudgetBoost(estimated_cost, b) ==
    IF b[1] <= estimated_cost /\ (b[2] = -1 \/ estimated_cost <= b[2])
    THEN Rat(11, 10)
    ELSE IF b[2] # -1 /\ estimated_cost > b[2] THEN Rat(8, 10)
    ELSE ROne

GroupBoost(group_type, item_categories) ==
    IF \/ group_type = "family" /\ "family-friendly" \in item_categories
       \/ group_type = "couple" /\ "romantic" \in item_categories
    THEN Rat(115, 100) ELSE ROne

\* duration_diff against 0.3 and 0.7 of the preferred duration
DurationBoost(diff, preferred) ==
    IF 10 * diff < 3 * preferred THEN Rat(11, 10)
    ELSE IF 10 * diff > 7 * preferred THEN Rat(9, 10) ELSE ROne

DurationBoostFor(estimated_duration, preferred) ==
    DurationBoost(Abs(estimated_duration - preferred), preferred)

ApplyPreferenceBoosting(item, preferences, base_score) ==
    RMul(base_score,
         RMul(RMul(InterestBoost(NamesLower(item.categories),
                                 NamesLower(preferences.interests)),
                   BudgetBoost(item.estimated_cost,
                               BoostBudgetRange(preferences.budget_range))),
              RMul(GroupBoost(preferences.group_type,
                              NamesLower(item.categories)),
                   DurationBoostFor(item.estimated_duration,
                                    ActivityDuration(preferences.activity_level)))))

\* generate_content_based_recommendations(user_profile, [item], top_k=1):
\* <<>> for an item the user interacted with, else the boosted similarity.
\* similarity is the cosine of the TF-IDF/numeric vectors, an input here.
GenerateContentBasedRecommendations(user_profile, item, similarity) ==
    IF \E k \in 1..Len(user_profile.interaction_history) :
           user_profile.interaction_history[k].item_id = item.id
    THEN <<>>
    ELSE <<ApplyPreferenceBoosting(item, user_profile.preferences, similarity)>>

(***************************************************************************)
(* ContextualScoringService                                                *)
(***************************************************************************)
CrowdImpactWeights(crowd_level) ==
    CASE crowd_level = "very_low" -> Rat(11, 10)
      [] crowd_level = "low" -> Rat(105, 100)
      [] crowd_level = "moderate" -> ROne
      [] crowd_level = "high" -> Rat(8, 10)
      [] crowd_level = "very_high" -> Rat(5, 10)
      [] OTHER -> ROne

\* _apply_crowd_context for one item; factor.value is the payload dict
\* the crowd weight of the item, raised for a quiet item in a crowded city
CrowdAdjustment(base, item, factor) ==
    IF /\ "overall_crowd_level" \in DOMAIN factor.value
       /\ factor.value["overall_crowd_level"] = "high"
       /\ item.crowd_level \in {"very_low", "low"}
    THEN RMul(base, Rat(12, 10)) ELSE base

ApplyCrowdContext(item, score, factor) ==
    RMul(score,
         RAdd(ROne,
              RMul(RSub(CrowdAdjustment(CrowdImpactWeights(item.crowd_level),
                                        item, factor),
                        ROne),
                   factor.confidence)))

\* the raw adjustment applied whatever the confidence
AdjustedUnweighted(score, adjustment_factor, confidence) ==
    RMul(score, adjustment_factor)

\* final_adjustment = 1.0 + (adjustment_factor - 1.0) * factor.confidence;
\* score * final_adjustment
Adjusted(score, adjustment_factor, confidence) ==
    RMul(score, RAdd(ROne, RMul(RSub(adjustment_factor, ROne), confidence)))

\* the categories of the catalog as texts
CategoryChars(category) ==
    CASE category = "outdoor" -> <<"o", "u", "t", "d", "o", "o", "r">>
      [] category = "scenic" -> <<"s", "c", "e", "n", "i", "c">>
      [] category = "tourist" -> <<"t", "o", "u", "r", "i", "s", "t">>
      [] category = "mountain" -> <<"m", "o", "u", "n", "t", "a", "i", "n">>
      [] category = "dining" -> <<"d", "i", "n", "i", "n", "g">>
      [] category = "dim sum" -> <<"d", "i", "m", " ", "s", "u", "m">>
      [] category = "local" -> <<"l", "o", "c", "a", "l">>
      [] category = "authentic" ->
          <<"a", "u", "t", "h", "e", "n", "t", "i", "c">>
      [] category = "transport" ->
          <<"t", "r", "a", "n", "s", "p", "o", "r", "t">>
      [] category = "historic" -> <<"h", "i", "s", "t", "o", "r", "i", "c">>
      [] category = "water" -> <<"w", "a", "t", "e", "r">>
      [] OTHER -> <<>>

OutdoorKeywords ==
    {<<"o", "u", "t", "d", "o", "o", "r">>,
     <<"h", "i", "k", "i", "n", "g">>,
     <<"b", "e", "a", "c", "h">>,
     <<"p", "a", "r", "k">>,
     <<"g", "a", "r", "d", "e", "n">>,
     <<"m", "o", "u", "n", "t", "a", "i", "n">>,
     <<"t", "r", "a", "i", "l">>}

IndoorKeywords ==
    {<<"i", "n", "d", "o", "o", "r">>,
     <<"m", "u", "s", "e", "u", "m">>,
     <<"m", "a", "l", "l">>,
     <<"r", "e", "s", "t", "a", "u", "r", "a", "n", "t">>,
     <<"t", "h", "e", "a", "t", "e", "r">>,
     <<"g", "a", "l", "l", "e", "r", "y">>}

\* keyword in f"{item.name} {item.description} {' '.join(item.categories)}".lower();
\* no keyword holds a space, so it lies within one of the joined parts
KeywordIn(item, keyword) ==
    \/ Contains(Lower(item.name), keyword)
    \/ Contains(Lower(item.description), keyword)
    \/ \E k \in 1..Len(item.categories) :
          Contains(Lower(CategoryChars(item.categories[k])), keyword)

KeywordScore(item, keywords) ==
    Cardinality({keyword \in keywords : KeywordIn(item, keyword)})

EnvironmentOf(outdoor_score, indoor_score) ==
    IF outdoor_score > indoor_score THEN "outdoor"
    ELSE IF indoor_score > outdoor_score THEN "indoor"
    ELSE "mixed"

ClassifyItemEnvironment(item) ==
    EnvironmentOf(KeywordScore(item, OutdoorKeywords),
                  KeywordScore(item, IndoorKeywords))

\* the environment of each item of the catalog
ItemEnvironment ==
    [id \in ItemIds |-> ClassifyItemEnvironment(ItemById(id))]

WeatherImpactWeights ==
    [sunny |-> [outdoor |-> Rat(12, 10), indoor |-> Rat(9, 10)],
     cloudy |-> [outdoor |-> ROne, indoor |-> ROne],
     rainy |-> [outdoor |-> Rat(3, 10), indoor |-> Rat(13, 10)],
     stormy |-> [outdoor |-> Rat(1, 10), indoor |-> Rat(14, 10)],
     hot |-> [outdoor |-> Rat(8, 10), indoor |-> Rat(11, 10)],
     humid |-> [outdoor |-> Rat(7, 10), indoor |-> Rat(12, 10)],
     cool |-> [outdoor |-> Rat(11, 10), indoor |-> Rat(95, 100)],
     windy |-> [outdoor |-> Rat(9, 10), indoor |-> ROne]]

\* dict.get(key, default)
GetOr(value, key, default) ==
    IF key \in DOMAIN value THEN value[key] ELSE default

InList(x, list) == \E k \in 1..Len(list) : list[k] = x

\* the entry of the condition for the environment of the item, 1.0 when
\* the table has none
ConditionWeight(weather_condition, item_type) ==
    IF weather_condition \in DOMAIN WeatherImpactWeights
    THEN GetOr(WeatherImpactWeights[weather_condition], item_type, ROne)
    ELSE ROne

\* if item.weather_dependent: ... adjustment_factor *= weather_weights.get(item_type, 1.0)
\* with the test of the flag left out
DependencyAdjustmentForAll(item, weather_condition) ==
    ConditionWeight(weather_condition, ItemEnvironment[item.id])

DependencyAdjustment(item, weather_condition) ==
    IF item.weather_dependent
    THEN ConditionWeight(weather_condition, ItemEnvironment[item.id])
    ELSE ROne

TemperatureAdjustment(categories, temperature) ==
    IF temperature > 30
    THEN IF InList("outdoor", categories) \/ InList("hiking", categories)
         THEN Rat(7, 10)
         ELSE IF InList("indoor", categories) \/ InList("mall", categories)
         THEN Rat(12, 10) ELSE ROne
    ELSE IF temperature < 15
    THEN IF InList("outdoor", categories) THEN Rat(9, 10)
         ELSE IF InList("hot springs", categories) \/ InList("indoor", categories)
         THEN Rat(11, 10) ELSE ROne
    ELSE ROne

HumidityAdjustment(categories, humidity) ==
    IF humidity > 80
    THEN IF InList("outdoor", categories) THEN Rat(8, 10)
         ELSE IF InList("air-conditioned", categories) THEN Rat(11, 10)
         ELSE ROne
    ELSE ROne

WeatherPreferenceAdjustment(weather_preferences, item_type) ==
    IF InList("indoor_preferred", weather_preferences)
    THEN IF item_type = "indoor" THEN Rat(11, 10) ELSE ROne
    ELSE IF InList("outdoor_preferred", weather_preferences)
    THEN IF item_type = "outdoor" THEN Rat(11, 10) ELSE ROne
    ELSE ROne

WeatherAdjustment(item, value, user_preferences) ==
    RMul(RMul(DependencyAdjustment(item, GetOr(value, "condition", "cloudy")),
              TemperatureAdjustment(item.categories,
                                    GetOr(value, "temperature", 25))),
         RMul(HumidityAdjustment(item.categories, GetOr(value, "humidity", 70)),
              WeatherPreferenceAdjustment(user_preferences.weather_preferences,
                                          ItemEnvironment[item.id])))

\* _apply_weather_context for one item
ApplyWeatherContext(item, score, factor, user_preferences) ==
    Adjusted(score, WeatherAdjustment(item, factor.value, user_preferences),
             factor.confidence)

GetTimePeriod(hour) ==
    IF 6 <= hour /\ hour < 12 THEN "morning"
    ELSE IF 12 <= hour /\ hour < 18 THEN "afternoon"
    ELSE IF 18 <= hour /\ hour < 22 THEN "evening"
    ELSE "night"

TimePreferences ==
    [morning |-> ("cultural" :> Rat(12, 10) @@ "outdoor" :> Rat(13, 10)
                   @@ "shopping" :> Rat(8, 10)),
     afternoon |-> ("cultural" :> ROne @@ "outdoor" :> Rat(11, 10)
                     @@ "shopping" :> Rat(12, 10)),
     evening |-> ("cultural" :> Rat(9, 10) @@ "outdoor" :> Rat(8, 10)
                   @@ "shopping" :> Rat(11, 10) @@ "dining" :> Rat(13, 10)),
     night |-> ("cultural" :> Rat(7, 10) @@ "outdoor" :> Rat(5, 10)
                 @@ "shopping" :> Rat(6, 10) @@ "dining" :> Rat(12, 10)
                 @@ "nightlife" :> Rat(14, 10))]

\* for category in item.categories: if category.lower() in weights:
\* adjustment_factor *= weights[category.lower()]; break
RECURSIVE FirstCategoryWeight(_, _)
FirstCategoryWeight(categories, weights) ==
    IF categories = <<>> THEN ROne
    ELSE IF NameLower(Head(categories)) \in DOMAIN weights
    THEN weights[NameLower(Head(categories))]
    ELSE FirstCategoryWeight(Tail(categories), weights)

SpecialTimeRule(categories, time_period) ==
    IF time_period = "morning"
    THEN IF InList("breakfast", categories) \/ InList("dim sum", categories)
         THEN Rat(13, 10) ELSE ROne
    ELSE IF time_period = "evening"
    THEN IF InList("sunset", categories) \/ InList("night view", categories)
         THEN Rat(12, 10) ELSE ROne
    ELSE IF time_period = "night"
    THEN IF InList("night market", categories) \/ InList("bar", categories)
         THEN Rat(13, 10) ELSE ROne
    ELSE ROne

TimeAdjustment(categories, time_period) ==
    RMul(FirstCategoryWeight(categories, TimePreferences[time_period]),
         SpecialTimeRule(categories, time_period))

\* _apply_time_context for one item; current_time is a time of day, a
\* record with the field hour
ApplyTimeContext(item, score, factor) ==
    IF "current_time" \notin DOMAIN factor.value THEN score
    ELSE Adjusted(score,
                  TimeAdjustment(item.categories,
                                 GetTimePeriod(factor.value["current_time"].hour)),
                  factor.confidence)

\* _calculate_distance, in metres, for the places the model uses: the user
\* on Victoria Peak or at 22.5 N 114.5 E
CalculateDistance(user_lat, user_lon, location) ==
    IF user_lat = 222783 /\ user_lon = 1141747
    THEN CASE location.latitude = 222783 -> 0
           [] location.latitude = 222793 -> 1229
           [] OTHER -> 1871
    ELSE CASE location.latitude = 222783 -> 41549
           [] location.latitude = 222793 -> 42475
           [] OTHER -> 40961

DistanceAdjustment(distance) ==
    IF distance < 1000 THEN Rat(12, 10)
    ELSE IF distance < 5000 THEN Rat(11, 10)
    ELSE IF distance < 10000 THEN ROne
    ELSE IF distance < 20000 THEN Rat(9, 10)
    ELSE Rat(8, 10)

\* _apply_location_context for one item; a payload with a latitude and no
\* longitude raises KeyError, which the handler catches: return scores
ApplyLocationContext(item, score, factor) ==
    IF DOMAIN factor.value = {} \/ "latitude" \notin DOMAIN factor.value
    THEN score
    ELSE IF "longitude" \notin DOMAIN factor.value THEN score
    ELSE Adjusted(score,
                  DistanceAdjustment(
                      CalculateDistance(factor.value["latitude"],
                                        factor.value["longitude"],
                                        item.location)),
                  factor.confidence)

SeasonalWeights ==
    [spring |-> ("outdoor" :> Rat(11, 10) @@ "flowers" :> Rat(13, 10)
                  @@ "hiking" :> Rat(12, 10)),
     summer |-> ("beach" :> Rat(13, 10) @@ "water" :> Rat(12, 10)
                  @@ "indoor" :> Rat(11, 10) @@ "outdoor" :> Rat(9, 10)),
     autumn |-> ("hiking" :> Rat(12, 10) @@ "outdoor" :> Rat(11, 10)
                  @@ "cultural" :> Rat(11, 10)),
     winter |-> ("indoor" :> Rat(12, 10) @@ "hot springs" :> Rat(13, 10)
                  @@ "cultural" :> Rat(11, 10) @@ "outdoor" :> Rat(8, 10))]

\* seasonal_weights.get(season, {})
SeasonWeights(season) ==
    IF season \in DOMAIN SeasonalWeights THEN SeasonalWeights[season]
    ELSE EmptyMap

\* _apply_seasonal_context for one item
ApplySeasonalContext(item, score, factor) ==
    Adjusted(score,
             FirstCategoryWeight(item.categories,
                                 SeasonWeights(GetOr(factor.value, "season",
                                                     "spring"))),
             factor.confidence)

\* the branch of apply_contextual_scoring for one factor
ApplyFactor(item, score, factor, user_preferences) ==
    CASE factor.type = "weather" ->
            ApplyWeatherContext(item, score, factor, user_preferences)
      [] factor.type = "crowd" -> ApplyCrowdContext(item, score, factor)
      [] factor.type = "time" -> ApplyTimeContext(item, score, factor)
      [] factor.type = "location" -> ApplyLocationContext(item, score, factor)
      [] factor.type = "season" -> ApplySeasonalContext(item, score, factor)
      [] OTHER -> score

RECURSIVE ApplyContextualScoring(_, _, _, _)
ApplyContextualScoring(item, score, contextual_factors, user_preferences) ==
    IF contextual_factors = <<>> THEN score
    ELSE ApplyContextualScoring(
             item,
             ApplyFactor(item, score, Head(contextual_factors),
                         user_preferences),
             Tail(contextual_factors), user_preferences)

(***************************************************************************)
(* Stable descending sort, as list.sort(key=..., reverse=True): element i  *)
(* comes after every element with a larger key and after the earlier       *)
(* elements with an equal key                                              *)
(***************************************************************************)
SortPosition(keys, n, i) ==
    1 + Cardinality({j \in 1..n : \/ RLt(keys[i], keys[j])
                                  \/ (j < i /\ keys[j] = keys[i])})

\* an ascending sort reversed: equal keys come out in reverse order
SortAscReversed(s, keys) ==
    [p \in 1..Len(s) |->
        s[CHOOSE i \in 1..Len(s) :
            1 + Cardinality({j \in 1..Len(s) :
                                \/ RLt(keys[i], keys[j])
                                \/ (j > i /\ keys[j] = keys[i])}) = p]]

SortDescBy(s, keys) ==
    [p \in 1..Len(s) |->
        s[CHOOSE i \in 1..Len(s) : SortPosition(keys, Len(s), i) = p]]

\* s[:n]: the first n elements, all but the last -n when n is negative
Take(s, n) ==
    LET stop == IF n < 0 THEN Len(s) + n ELSE n
    IN  SubSeq(s, 1, IF stop < 0 THEN 0 ELSE IF stop < Len(s) THEN stop ELSE Len(s))

\* s[:n] taken for s[-n:]: the oldest n elements are the ones kept
FirstN(s, n) == SubSeq(s, 1, IF n < Len(s) THEN n ELSE Len(s))

\* s[-n:] for n > 0
LastN(s, n) == IF Len(s) <= n THEN s ELSE SubSeq(s, Len(s) - n + 1, Len(s))

(***************************************************************************)
(* RecommendationEngine.  An engine state is a record                      *)
(*   user_profiles            user id -> [preferences, interaction_history,*)
(*                                        last_updated]                    *)
(*   recommendation_history   user id -> sequence of stored responses      *)
(*   ulp                      preference_service.user_learned_preferences  *)
(*   cf                       the collaborative service's store            *)
(*   now                      the clock, in hours                          *)
(***************************************************************************)
TTLHours == 24
HistoryCap == 100

AlgorithmWeights ==
    [collaborative |-> Rat(3, 10), content_based |-> Rat(4, 10),
     contextual |-> Rat(2, 10), preference_learning |-> Rat(1, 10)]

BudgetRangeValues == {"low", "medium", "high", "luxury"}
GroupTypeValues == {"solo", "couple", "family"}
ActivityLevelValues == {"low", "moderate", "high", "extreme"}

\* UserPreferences() with every field at its default
DefaultPreferences ==
    [interests |-> <<>>, budget_range |-> "medium", group_type |-> "solo",
     dietary_restrictions |-> <<>>, activity_level |-> "moderate",
     weather_preferences |-> <<>>]

\* an existing profile keeping the preferences it has
GetOrCreateUserProfileKeep(user_profiles, user_id, preferences, now_) ==
    [u \in DOMAIN user_profiles \cup {user_id} |->
        IF u \in DOMAIN user_profiles THEN user_profiles[u]
        ELSE [preferences |-> preferences, interaction_history |-> <<>>,
              last_updated |-> now_]]

GetOrCreateUserProfile(user_profiles, user_id, preferences, now_) ==
    [u \in DOMAIN user_profiles \cup {user_id} |->
        IF u # user_id THEN user_profiles[u]
        ELSE IF user_id \notin DOMAIN user_profiles
        THEN [preferences |-> preferences, interaction_history |-> <<>>,
              last_updated |-> now_]
        ELSE [user_profiles[u] EXCEPT !.preferences = preferences]]

\* the cost band of a budget tier; an upper bound of -1 stands for inf
FilterBudgetRange(budget_range) ==
    CASE budget_range = "low" -> <<0, 100>>
      [] budget_range = "medium" -> <<0, 300>>
      [] budget_range = "high" -> <<0, 800>>
      [] OTHER -> <<0, -1>>

RECURSIVE InSeq(_, _)
InSeq(x, s) == s # <<>> /\ (x = Head(s) \/ InSeq(x, Tail(s)))

\* min_budget <= item.estimated_cost <= max_budget
WithinBudget(estimated_cost, b) ==
    /\ b[1] <= estimated_cost
    /\ b[2] = -1 \/ estimated_cost <= b[2]

\* not any(restriction in item.description.lower() for restriction in ...)
MeetsDietaryRestrictions(item, restrictions) ==
    restrictions # <<>> =>
        \/ item.type # "restaurant"
        \/ ~\E k \in 1..Len(restrictions) :
               Contains(Lower(item.description), restrictions[k])

KeepCandidate(item, request) ==
    /\ request.recommendation_types # <<>>
           => InSeq(item.type, request.recommendation_types)
    /\ WithinBudget(item.estimated_cost,
                    FilterBudgetRange(request.preferences.budget_range))
    /\ MeetsDietaryRestrictions(item, request.preferences.dietary_restrictions)

RECURSIVE FilterCandidateItems(_, _)
FilterCandidateItems(items, request) ==
    IF items = <<>> THEN <<>>
    ELSE (IF KeepCandidate(Head(items), request) THEN <<Head(items)>> ELSE <<>>)
             \o FilterCandidateItems(Tail(items), request)

\* scores.get(approach, 0.5) * weight summed over algorithm_weights
\* (no 'contextual' score is ever put into scores)
CombineScores(content_based, collaborative, preference_learning) ==
    RAdd(RAdd(RMul(collaborative, AlgorithmWeights.collaborative),
              RMul(content_based, AlgorithmWeights.content_based)),
         RAdd(RMul(Rat(1, 2), AlgorithmWeights.contextual),
              RMul(preference_learning, AlgorithmWeights.preference_learning)))

\* a response expiring in the instant it is created
ValidUntilCreation(t) == t

\* valid_until=datetime.now() + timedelta(hours=24)
ValidUntil(t) == t + TTLHours

\* recs[0].score if recs else 0.5
ScoreOrDefault(recs) == IF recs # <<>> THEN recs[1] ELSE Rat(1, 2)

\* one pass of the loop of _generate_hybrid_recommendations, the response
\* being created at time t
HybridRecommendation(E, user_profile, item, request, similarity, t) ==
    [id |-> <<item.id, t>>, user_id |-> request.user_id,
     item |-> item.id,
     personalized_score |->
         CombineScores(
             ScoreOrDefault(GenerateContentBasedRecommendations(
                                user_profile, item, similarity)),
             ScoreOrDefault(GenerateCollaborativeRecommendations(
                                E.cf, request.user_id, item)),
             RDiv(RSub(PredictUserRating(E.ulp, request.user_id, item,
                                         request.preferences),
                       ROne),
                  RInt(4))),
     generated_at |-> t, valid_until |-> ValidUntil(t)]

StoreRecommendations(recommendation_history, user_id, recommendations) ==
    [u \in DOMAIN recommendation_history \cup {user_id} |->
        IF u # user_id THEN recommendation_history[u]
        ELSE LastN((IF user_id \in DOMAIN recommendation_history
                    THEN recommendation_history[u] ELSE <<>>)
                       \o recommendations,
                   HistoryCap)]

\* the handler of generate_recommendations letting the exception through
GenerateRecommendationsReraise(E) ==
    [E |-> E, result |-> <<>>, raised |-> TRUE]

\* except Exception in generate_recommendations: log, return []
GenerateRecommendationsExcept(E) ==
    [E |-> E, result |-> <<>>, raised |-> FALSE]

\* _generate_hybrid_recommendations over the candidates, the k-th
\* response being created (k - 1) * dt after the call began
GenerateHybridRecommendations(E, user_profile, candidate_items, request, similarity, dt, fault) ==
    IF fault = "scoring" THEN <<>>
    ELSE [k \in 1..Len(candidate_items) |->
            HybridRecommendation(E, user_profile, candidate_items[k], request,
                                 similarity[candidate_items[k].id],
                                 E.now + (k - 1) * dt)]

\* _apply_contextual_adjustments
ApplyContextualAdjustments(recommendations, contextual_factors, preferences, fault) ==
    IF contextual_factors # <<>> /\ fault # "contextual"
    THEN [k \in 1..Len(recommendations) |->
            [recommendations[k] EXCEPT !.personalized_score =
                ApplyContextualScoring(ItemById(recommendations[k].item), @,
                                       contextual_factors, preferences)]]
    ELSE recommendations

PersonalizedScores(recommendations) ==
    [k \in 1..Len(recommendations) |-> recommendations[k].personalized_score]

\* recommendations.sort(key=..., reverse=True); recommendations[:max_results]
RankAndLimit(recommendations, max_results) ==
    Take(SortDescBy(recommendations, PersonalizedScores(recommendations)),
         max_results)

\* the clock after n responses were created dt apart
ClockAfter(E, n, dt, fault) ==
    [E EXCEPT !.now = IF n > 0 /\ fault # "scoring" THEN @ + (n - 1) * dt ELSE @]

\* _store_recommendations and the return of generate_recommendations
StoreAndReturn(E, user_id, final_recommendations) ==
    [E |-> [E EXCEPT !.recommendation_history =
                StoreRecommendations(@, user_id, final_recommendations)],
     result |-> final_recommendations, raised |-> FALSE]

\* generate_recommendations from the candidates on, E holding the profile
\* and the learned preferences of the caller
GenerateFromCandidates(E, user_profile, candidate_items, request, similarity, dt, fault) ==
    IF candidate_items = <<>>
    THEN [E |-> E, result |-> <<>>, raised |-> FALSE]
    ELSE IF fault = "ranking"
    THEN GenerateRecommendationsExcept(
             ClockAfter(E, Len(candidate_items), dt, fault))
    ELSE StoreAndReturn(
             ClockAfter(E, Len(candidate_items), dt, fault),
             request.user_id,
             RankAndLimit(
                 ApplyContextualAdjustments(
                     GenerateHybridRecommendations(
                         E, user_profile, candidate_items, request,
                         similarity, dt, fault),
                     request.contextual_factors, request.preferences,
                     fault),
                 request.max_results))

\* generate_recommendations after _get_or_create_user_profile: learning
\* from the interaction history, then candidate filtering
GenerateForProfile(E, profiles, request, similarity, dt, fault) ==
    GenerateFromCandidates(
        [E EXCEPT !.user_profiles = profiles,
                  !.ulp = LearnFromInteractions(
                              @, request.user_id,
                              profiles[request.user_id].interaction_history)],
        profiles[request.user_id],
        IF fault = "filter" THEN available_items
        ELSE FilterCandidateItems(available_items, request),
        request, similarity, dt, fault)

\* generate_recommendations.  similarity maps item ids to the content
\* cosine; dt is the time the clock advances between two response
\* creations; fault names the step in which an unexpected exception is
\* thrown: "none", "filter" (in _filter_candidate_items, whose handler
\* returns the whole catalog), "scoring" (in
\* _generate_hybrid_recommendations, whose handler returns []),
\* "contextual" (in _apply_contextual_adjustments before a score is
\* written, whose handler returns the list it was given) or "ranking"
\* (in the body of generate_recommendations itself, after scoring).
\* Result: [E, result, raised].
GenerateRecommendations(E, request, similarity, dt, fault) ==
    GenerateForProfile(
        E,
        GetOrCreateUserProfile(E.user_profiles, request.user_id,
                               request.preferences, E.now),
        request, similarity, dt, fault)

RECURSIVE AllRecs(_, _)
AllRecs(recommendation_history, users) ==
    IF users = {} THEN <<>>
    ELSE LET u == CHOOSE x \in users : TRUE
         IN  recommendation_history[u]
                 \o AllRecs(recommendation_history, users \ {u})

\* the lookup running over the histories of all users
UserRecsOfAnyUser(E, user_id) ==
    AllRecs(E.recommendation_history, DOMAIN E.recommendation_history)

\* user_recs = self.recommendation_history.get(user_id, [])
UserRecs(E, user_id) ==
    IF user_id \in DOMAIN E.recommendation_history
    THEN E.recommendation_history[user_id] ELSE <<>>

\* next((rec for rec in user_recs if rec.id == recommendation_id), None)
FindRecommendation(user_recs, recommendation_id) ==
    IF \E k \in 1..Len(user_recs) : user_recs[k].id = recommendation_id
    THEN user_recs[CHOOSE k \in 1..Len(user_recs) :
                       /\ user_recs[k].id = recommendation_id
                       /\ \A j \in 1..(k - 1) : user_recs[j].id # recommendation_id]
    ELSE None

\* update_preferences_from_feedback on the store; an exception thrown in
\* its body (learner_fault) is caught and logged there, after the user's
\* map has been created
FeedbackUpdateOrFault(m, rating, feedback, item, learner_fault) ==
    IF learner_fault THEN m ELSE FeedbackUpdate(m, rating, feedback, item)

UpdatePreferencesFromFeedback(ulp, user_id, rating, feedback, item, learner_fault) ==
    [u \in DOMAIN ulp \cup {user_id} |->
        IF u # user_id THEN ulp[u]
        ELSE FeedbackUpdateOrFault(
                 IF user_id \in DOMAIN ulp THEN ulp[user_id] ELSE EmptyMap,
                 rating, feedback, item, learner_fault)]

\* except Exception in process_feedback: log, raise
ProcessFeedbackExcept(E) ==
    [E |-> E, result |-> <<>>, raised |-> TRUE]

\* UserInteraction(..., interaction_type='rate', ...)
RateInteraction(user_id, item_id, rating, recommendation_id, now_) ==
    [user_id |-> user_id, item_id |-> item_id,
     interaction_type |-> "rate", rating |-> rating, timestamp |-> now_,
     context |-> ("recommendation_id" :> recommendation_id)]

\* the interaction appended to every profile
AppendInteractionToAll(user_profiles_, user_id, interaction) ==
    [u \in DOMAIN user_profiles_ |->
        [user_profiles_[u] EXCEPT !.interaction_history =
                                      Append(@, interaction)]]

\* if user_id in self.user_profiles: ...interaction_history.append(interaction)
AppendInteraction(user_profiles_, user_id, interaction) ==
    IF user_id \in DOMAIN user_profiles_
    THEN [user_profiles_ EXCEPT ![user_id].interaction_history =
                                    Append(@, interaction)]
    ELSE user_profiles_

\* the collaborative update that ends process_feedback
UpdateCollaborative(E, user_id, interaction, fault) ==
    IF fault = "collaborative" THEN ProcessFeedbackExcept(E)
    ELSE [E |-> [E EXCEPT !.cf = UpdateUserInteractions(@, user_id,
                                                        <<interaction>>)],
          result |-> <<>>, raised |-> FALSE]

\* the interaction is put into the profile and the collaborative model
RecordInteraction(E, user_id, interaction, fault) ==
    UpdateCollaborative(
        [E EXCEPT !.user_profiles = AppendInteraction(@, user_id, interaction)],
        user_id, interaction, fault)

\* process_feedback after the lookup of the recommendation
ProcessFeedbackOn(E, user_id, recommendation_id, recommendation, rating, feedback, fault) ==
    IF recommendation = None
    THEN [E |-> E, result |-> <<>>, raised |-> FALSE]
    ELSE RecordInteraction(
             [E EXCEPT !.ulp = UpdatePreferencesFromFeedback(
                                   @, user_id, rating, feedback,
                                   ItemById(recommendation.item),
                                   fault = "learner")],
             user_id,
             RateInteraction(user_id, recommendation.item, rating,
                             recommendation_id, E.now),
             fault)

\* process_feedback.  fault names the step in which an unexpected
\* exception is thrown ("none", "learner", "collaborative").
ProcessFeedback(E, user_id, recommendation_id, rating, feedback, fault) ==
    ProcessFeedbackOn(
        E, user_id, recommendation_id,
        FindRecommendation(UserRecs(E, user_id), recommendation_id),
        rating, feedback, fault)

\* an entry still counted as active in the instant it expires
IsActiveInclusive(rec, now_) == rec.valid_until >= now_

\* rec.valid_until > now
IsActive(rec, now_) == rec.valid_until > now_

\* active_recs.sort(key=lambda x: x.generated_at, reverse=True)[:limit]
NewestFirst(active_recs, limit) ==
    Take(SortDescBy(active_recs,
                    [k \in 1..Len(active_recs) |->
                        RInt(active_recs[k].generated_at)]),
         limit)

\* get_user_recommendations; fault is TRUE when an unexpected exception is
\* thrown in its body
GetUserRecommendations(E, user_id, limit, fault) ==
    [E |-> E,
     result |->
         IF fault THEN <<>>
         ELSE NewestFirst(
                  SelectSeq(UserRecs(E, user_id),
                            LAMBDA rec : IsActive(rec, E.now)),
                  limit),
     raised |-> FALSE]

\* UserPreferences(...) built from the preferences dict (a function from
\* the keys it holds); the enum constructors raise ValueError on a value
\* that is not a member
PrefField(preferences, key, default) ==
    IF key \in DOMAIN preferences THEN preferences[key] ELSE default

PreferencesFromDict(preferences) ==
    [interests |-> PrefField(preferences, "interests", <<>>),
     budget_range |-> PrefField(preferences, "budget_range", "medium"),
     group_type |-> PrefField(preferences, "group_type", "solo"),
     dietary_restrictions |-> PrefField(preferences, "dietary_restrictions", <<>>),
     activity_level |-> PrefField(preferences, "activity_level", "moderate"),
     weather_preferences |-> PrefField(preferences, "weather_preferences", <<>>)]

ValidEnums(user_prefs) ==
    /\ user_prefs.budget_range \in BudgetRangeValues
    /\ user_prefs.group_type \in GroupTypeValues
    /\ user_prefs.activity_level \in ActivityLevelValues

\* the handler of update_user_preferences returning instead of raising
UpdateUserPreferencesSwallow(E) ==
    [E |-> E, result |-> <<>>, raised |-> FALSE]

\* except Exception in update_user_preferences: log, raise
UpdateUserPreferencesExcept(E) ==
    [E |-> E, result |-> <<>>, raised |-> TRUE]

\* the profile is given the new preferences and learning is run again
StorePreferences(E, user_id, user_prefs) ==
    IF ~ValidEnums(user_prefs) THEN UpdateUserPreferencesExcept(E)
    ELSE [E |-> [E EXCEPT
                    !.user_profiles[user_id] =
                        [@ EXCEPT !.preferences = user_prefs,
                                  !.last_updated = E.now],
                    !.ulp = LearnFromInteractions(
                                @, user_id,
                                E.user_profiles[user_id].interaction_history)],
          result |-> <<>>, raised |-> FALSE]

\* update_user_preferences
UpdateUserPreferences(E, user_id, preferences) ==
    IF user_id \notin DOMAIN E.user_profiles
    THEN [E |-> E, result |-> <<>>, raised |-> FALSE]
    ELSE StorePreferences(E, user_id, PreferencesFromDict(preferences))

(***************************************************************************)
(* Bounds of the model and the inputs the operations are called with       *)
(***************************************************************************)
MaxCalls == 3
WarmupCalls == 49

Users == {"u1", "u2"}

PrefsSample ==
    [DefaultPreferences EXCEPT !.interests = <<"Outdoor", "scenic">>]

PrefsLowBudget == [DefaultPreferences EXCEPT !.budget_range = "low"]

PrefsNoDimSum ==
    [DefaultPreferences EXCEPT
        !.budget_range = "high",
        !.dietary_restrictions = <<<<"d", "i", "m", " ", "s", "u", "m">>>>]

PrefsNoMichelin ==
    [DefaultPreferences EXCEPT
        !.dietary_restrictions = <<<<"M", "i", "c", "h", "e", "l", "i", "n">>>>]

CrowdFactor ==
    [type |-> "crowd", value |-> ("overall_crowd_level" :> "high"),
     confidence |-> Rat(9, 10)]

ReqSample(u) ==
    [user_id |-> u, preferences |-> PrefsSample,
     recommendation_types |-> <<"attraction", "activity">>,
     contextual_factors |-> <<CrowdFactor>>, max_results |-> 3]

ReqAll(u) ==
    [user_id |-> u, preferences |-> DefaultPreferences,
     recommendation_types |-> <<>>,
     contextual_factors |-> <<>>, max_results |-> 2]

ReqNoMatch(u) ==
    [user_id |-> u, preferences |-> PrefsLowBudget,
     recommendation_types |-> <<"restaurant">>,
     contextual_factors |-> <<>>, max_results |-> 3]

ReqNoDimSum(u) ==
    [user_id |-> u, preferences |-> PrefsNoDimSum,
     recommendation_types |-> <<>>,
     contextual_factors |-> <<CrowdFactor>>, max_results |-> 1]

ReqNoMichelin(u) ==
    [user_id |-> u, preferences |-> PrefsNoMichelin,
     recommendation_types |-> <<"restaurant", "activity">>,
     contextual_factors |-> <<>>, max_results |-> 3]

\* content cosines of the three catalog items: all equal, or rising
SimFlat == [i \in ItemIds |-> RZero]

SimRising ==
    [i \in ItemIds |->
        CASE i = "item_1" -> Rat(1, 4) [] i = "item_2" -> Rat(1, 2)
          [] OTHER -> Rat(3, 4)]

\* the calls of generate_recommendations a user makes: the request, the
\* content cosines, the clock step between two creations and the fault
GenerateInputs(u) ==
    IF u = "u1"
    THEN {<<ReqSample(u), SimRising, 1, "none">>,
          <<ReqAll(u), SimFlat, 0, "none">>,
          <<ReqNoMatch(u), SimFlat, 0, "none">>,
          <<ReqNoDimSum(u), SimRising, 0, "contextual">>,
          <<ReqNoMichelin(u), SimFlat, 0, "none">>,
          <<ReqNoMatch(u), SimRising, 0, "filter">>,
          <<ReqSample(u), SimFlat, 1, "scoring">>,
          <<ReqAll(u), SimRising, 1, "ranking">>}
    ELSE {<<ReqAll(u), SimRising, 1, "none">>}

\* the calls of process_feedback: rating, feedback text and fault
FeedbackInputs(u) ==
    IF u = "u1"
    THEN {<<RInt(5), None, "none">>,
          <<RInt(2), <<"L", "o", "c", "a", "l", " ", "b", "u", "t", " ", "c", "r", "o", "w", "d", "e", "d">>, "none">>,
          <<RInt(5), None, "learner">>,
          <<RInt(2), None, "collaborative">>}
    ELSE {<<RInt(5), None, "none">>}

UnknownId == <<"item_1", -1>>

\* the calls of get_user_recommendations: limit and fault
ReadInputs(u) ==
    IF u = "u1" THEN {<<1, FALSE>>, <<3, FALSE>>, <<-1, FALSE>>, <<3, TRUE>>}
    ELSE {<<3, FALSE>>}

\* the calls of update_user_preferences: the preferences dict
PreferenceDicts(u) ==
    IF u = "u1"
    THEN {("interests" :> <<"scenic">>) @@ ("budget_range" :> "high")
              @@ ("group_type" :> "family") @@ ("activity_level" :> "low"),
          ("budget_range" :> "cheap"),
          ("interests" :> <<"water">>) @@ ("activity_level" :> "lazy")}
    ELSE {("budget_range" :> "luxury")}

(***************************************************************************)
(* State                                                                   *)
(***************************************************************************)
VARIABLES
    user_profiles,             \* RecommendationEngine.user_profiles
    recommendation_history,    \* RecommendationEngine.recommendation_history
    user_learned_preferences,  \* PreferenceLearningService.user_learned_preferences
    cf_user_profiles,          \* CollaborativeFilteringService.user_profiles
    user_similarities,         \* CollaborativeFilteringService.user_similarities
    now,                       \* the clock, in hours
    op,                        \* the last call: its name, arguments and outcome
    stored,                    \* per user, every response handed to _store_recommendations
    calls                      \* number of steps taken

vars == <<user_profiles, recommendation_history, user_learned_preferences,
          cf_user_profiles, user_similarities, now, op, stored, calls>>

Engine ==
    [user_profiles |-> user_profiles,
     recommendation_history |-> recommendation_history,
     ulp |-> user_learned_preferences,
     cf |-> [user_profiles |-> cf_user_profiles,
             user_similarities |-> user_similarities],
     now |-> now]

NoOp == [name |-> "init", user_id |-> "", args |-> EmptyMap,
         result |-> <<>>, raised |-> FALSE]

\* the engine after construction and _initialize_mock_data
InitFrom(first_call) ==
    /\ user_profiles = EmptyMap
    /\ recommendation_history = EmptyMap
    /\ user_learned_preferences = EmptyMap
    /\ cf_user_profiles = EmptyMap
    /\ user_similarities = EmptyMap
    /\ now = 0
    /\ op = NoOp
    /\ stored = [u \in Users |-> <<>>]
    /\ calls = first_call

Init == InitFrom(0)

Commit(r, name, user_id, args) ==
    /\ user_profiles' = r.E.user_profiles
    /\ recommendation_history' = r.E.recommendation_history
    /\ user_learned_preferences' = r.E.ulp
    /\ cf_user_profiles' = r.E.cf.user_profiles
    /\ user_similarities' = r.E.cf.user_similarities
    /\ now' = r.E.now
    /\ op' = [name |-> name, user_id |-> user_id, args |-> args,
              result |-> r.result, raised |-> r.raised]
    /\ calls' = calls + 1

\* while calls is negative the engine is being warmed up: user u1 asks
\* for the whole catalog, again and again
WarmupInputs(u) ==
    IF u = "u1" THEN {<<ReqAll(u), SimRising, 1, "none">>} ELSE {}

\* generate_recommendations returns r; what it returns is what it stored
CommitGenerate(r, u, args) ==
    /\ Commit(r, "generate_recommendations", u, args)
    /\ stored' = [stored EXCEPT ![u] = @ \o r.result]

Generate ==
    \E u \in Users :
    \E in \in IF calls < 0 THEN WarmupInputs(u) ELSE GenerateInputs(u) :
        /\ calls < MaxCalls
        /\ CommitGenerate(
               GenerateRecommendations(Engine, in[1], in[2], in[3], in[4]),
               u, [request |-> in[1], fault |-> in[4]])

\* the ids feedback is given on: the oldest response ever stored for a
\* user, the oldest and the newest a user's history holds, and an id that
\* was never issued
FeedbackIds ==
    {stored[u][1].id : u \in {w \in Users : stored[w] # <<>>}}
    \cup {recommendation_history[u][1].id :
              u \in {w \in DOMAIN recommendation_history :
                        recommendation_history[w] # <<>>}}
    \cup {recommendation_history[u][Len(recommendation_history[u])].id :
              u \in {w \in DOMAIN recommendation_history :
                        recommendation_history[w] # <<>>}}
    \cup {UnknownId}

Feedback ==
    \E u \in Users : \E rid \in FeedbackIds : \E in \in FeedbackInputs(u) :
        /\ 0 <= calls /\ calls < MaxCalls
        /\ Commit(ProcessFeedback(Engine, u, rid, in[1], in[2], in[3]),
                  "process_feedback", u,
                  [recommendation_id |-> rid, rating |-> in[1],
                   feedback |-> in[2], fault |-> in[3]])
        /\ UNCHANGED stored

Read ==
    \E u \in Users : \E in \in ReadInputs(u) :
        /\ 0 <= calls /\ calls < MaxCalls
        /\ Commit(GetUserRecommendations(Engine, u, in[1], in[2]),
                  "get_user_recommendations", u,
                  [limit |-> in[1], fault |-> in[2]])
        /\ UNCHANGED stored

UpdatePreferences ==
    \E u \in Users : \E preferences \in PreferenceDicts(u) :
        /\ 0 <= calls /\ calls < MaxCalls
        /\ Commit(UpdateUserPreferences(Engine, u, preferences),
                  "update_user_preferences", u, [preferences |-> preferences])
        /\ UNCHANGED stored

\* time passes between two calls: the lifetime of a response, or an hour
\* less
Tick ==
    /\ 0 <= calls /\ calls < MaxCalls
    /\ \E d \in {TTLHours - 1, TTLHours} : now' = now + d
    /\ op' = [NoOp EXCEPT !.name = "tick"]
    /\ calls' = calls + 1
    /\ UNCHANGED <<user_profiles, recommendation_history,
                   user_learned_preferences, cf_user_profiles,
                   user_similarities, stored>>

Next == Generate \/ Feedback \/ Read \/ UpdatePreferences \/ Tick

Spec == Init /\ [][Next]_vars

\* the same engine, user u1 first making WarmupCalls requests for the whole
\* catalog
InitCap == InitFrom(-WarmupCalls)

SpecCap == InitCap /\ [][Next]_vars

(***************************************************************************)
(* The feedback loop: one user asks for the whole catalog, rates what was  *)
(* recommended and asks again                                              *)
(***************************************************************************)
MaxScenarioCalls == 4

\* the cosines the content service computes between the profile vector of
\* a user without interests and interactions and the three catalog items,
\* rounded to 1/1000: default preferences, and a low budget
SimFreshDefault ==
    [i \in ItemIds |->
        CASE i = "item_1" -> Rat(419, 1000) [] i = "item_2" -> Rat(247, 1000)
          [] OTHER -> Rat(-654, 1000)]

SimFreshLowBudget ==
    [i \in ItemIds |->
        CASE i = "item_1" -> Rat(361, 1000) [] i = "item_2" -> Rat(319, 1000)
          [] OTHER -> Rat(-651, 1000)]

ReqCatalog(u, preferences) ==
    [user_id |-> u, preferences |-> preferences,
     recommendation_types |-> <<>>,
     contextual_factors |-> <<>>, max_results |-> 3]

ScenarioInputs ==
    {<<DefaultPreferences, SimFreshDefault>>,
     <<PrefsLowBudget, SimFreshLowBudget>>}

ScenarioGenerate ==
    \E in \in ScenarioInputs :
        /\ calls < MaxScenarioCalls
        /\ CommitGenerate(
               GenerateRecommendations(Engine, ReqCatalog("u1", in[1]), in[2],
                                       1, "none"),
               "u1", [request |-> ReqCatalog("u1", in[1]), fault |-> "none"])

ScenarioFeedback ==
    \E k \in 1..Len(UserRecs(Engine, "u1")) : \E rating \in {RInt(5), RInt(2)} :
        /\ calls < MaxScenarioCalls
        /\ Commit(ProcessFeedback(Engine, "u1", UserRecs(Engine, "u1")[k].id,
                                  rating, None, "none"),
                  "process_feedback", "u1",
                  [recommendation_id |-> UserRecs(Engine, "u1")[k].id,
                   rating |-> rating, feedback |-> None, fault |-> "none"])
        /\ UNCHANGED stored

ScenarioNext == ScenarioGenerate \/ ScenarioFeedback

SpecFeedbackLoop == Init /\ [][ScenarioNext]_vars

(***************************************************************************)
(* The collaborative service on its own: a matrix and a similarity table   *)
(* built from the profiles of three users, then queried                    *)
(***************************************************************************)
CFUsers == {"u1", "u2", "u3"}

ViewInteraction(item_id) ==
    [user_id |-> "", item_id |-> item_id, interaction_type |-> "view",
     rating |-> None, timestamp |-> 0, context |-> EmptyMap]

RatedInteraction(item_id, rating) ==
    [user_id |-> "", item_id |-> item_id, interaction_type |-> "rate",
     rating |-> RInt(rating), timestamp |-> 0, context |-> EmptyMap]

\* the interaction histories a profile is built with
HistoryChoices ==
    {<<>>,
     <<ViewInteraction("item_1")>>,
     <<ViewInteraction("item_2"), RatedInteraction("item_1", 4)>>,
     <<RatedInteraction("item_3", 5)>>,
     <<ViewInteraction("item_1"), ViewInteraction("item_3")>>}

\* generate_collaborative_recommendations(user_id, items, top_k): the
\* items that got a score, each with its score, in the order of the items
ScoredItem(item_id, recs) ==
    IF recs = <<>> THEN <<>> ELSE <<[item |-> item_id, score |-> recs[1]]>>

RECURSIVE ScoredItems(_, _, _)
ScoredItems(cf, user_id, items) ==
    IF items = <<>> THEN <<>>
    ELSE ScoredItem(Head(items).id,
                    GenerateCollaborativeRecommendations(cf, user_id, Head(items)))
             \o ScoredItems(cf, user_id, Tail(items))

Scores(scored) == [k \in 1..Len(scored) |-> scored[k].score]

\* sorted(item_scores.items(), key=score, reverse=True)[:top_k]
TopScored(scored, top_k) == Take(SortDescBy(scored, Scores(scored)), top_k)

CollaborativeRecommendations(cf, user_id, items, top_k) ==
    TopScored(ScoredItems(cf, user_id, items), top_k)

\* build_user_item_matrix(profiles) and compute_user_similarities()
InitCollaborative ==
    /\ user_profiles = EmptyMap
    /\ recommendation_history = EmptyMap
    /\ user_learned_preferences = EmptyMap
    /\ cf_user_profiles \in [CFUsers -> HistoryChoices]
    /\ user_similarities = ComputeUserSimilarities(cf_user_profiles)
    /\ now = 0 /\ op = NoOp /\ stored = [u \in Users |-> <<>>] /\ calls = 0

CollaborativeQuery ==
    \E u \in CFUsers \cup {"u4"} : \E top_k \in {1, 20} :
        /\ op' = [name |-> "generate_collaborative_recommendations",
                  user_id |-> u, args |-> [top_k |-> top_k],
                  result |-> CollaborativeRecommendations(
                                 Engine.cf, u, available_items, top_k),
                  raised |-> FALSE]
        /\ UNCHANGED <<user_profiles, recommendation_history,
                       user_learned_preferences, cf_user_profiles,
                       user_similarities, now, stored, calls>>

SpecCollaborative == InitCollaborative /\ [][CollaborativeQuery]_vars

(***************************************************************************)
(* The preference learner on its own: a store of learned preferences as    *)
(* many rounds of learning leave it, then read                             *)
(***************************************************************************)
LearnedKeySets ==
    {{<<"category", "outdoor">>, <<"budget", "low">>, <<"crowd", "low">>},
     {<<"category", "scenic">>, <<"budget", "medium">>,
      <<"duration", "short">>, <<"crowd", "high">>}}

LearnedValues == {Rat(-5, 1), Rat(-1, 2), Rat(1, 100), Rat(3, 2)}

LearnedMaps ==
    {EmptyMap} \cup UNION {[keys -> LearnedValues] : keys \in LearnedKeySets}

InitLearner ==
    /\ user_profiles = EmptyMap
    /\ recommendation_history = EmptyMap
    /\ user_learned_preferences \in
           {EmptyMap} \cup {("u1" :> m) : m \in LearnedMaps}
    /\ cf_user_profiles = EmptyMap
    /\ user_similarities = EmptyMap
    /\ now = 0 /\ op = NoOp /\ stored = [u \in Users |-> <<>>] /\ calls = 0

\* a call of the learner that only reads its store
LearnerRead(name, user_id, args, result) ==
    /\ op' = [name |-> name, user_id |-> user_id, args |-> args,
              result |-> result, raised |-> FALSE]
    /\ UNCHANGED <<user_profiles, recommendation_history,
                   user_learned_preferences, cf_user_profiles,
                   user_similarities, now, stored, calls>>

GetLearned ==
    \E u \in Users :
        LearnerRead("get_learned_preferences", u, EmptyMap,
                    GetLearnedPreferences(user_learned_preferences, u))

PrefsLowActivity == [DefaultPreferences EXCEPT !.activity_level = "low"]

ExplicitChoices ==
    {DefaultPreferences, PrefsSample, PrefsLowBudget, PrefsLowActivity}

Predict ==
    \E u \in Users : \E id \in ItemIds : \E explicit_prefs \in ExplicitChoices :
        LearnerRead("predict_user_rating", u,
                    [item_id |-> id, preferences |-> explicit_prefs],
                    PredictUserRating(user_learned_preferences, u,
                                      ItemById(id), explicit_prefs))

LearnerNext == GetLearned \/ Predict

SpecLearner == InitLearner /\ [][LearnerNext]_vars

MaxLearnRounds == 1

\* the batches learn_from_interactions is called with; item_9 is not in
\* the catalog
LearnChoices ==
    {<<>>,
     <<ViewInteraction("item_9")>>,
     <<RatedInteraction("item_1", 5)>>,
     <<ViewInteraction("item_3"), RatedInteraction("item_1", 2)>>}

Learn ==
    \E u \in Users : \E interactions \in LearnChoices :
        /\ calls < MaxLearnRounds
        /\ user_learned_preferences' =
               LearnFromInteractions(user_learned_preferences, u, interactions)
        /\ op' = [name |-> "learn_from_interactions", user_id |-> u,
                  args |-> [interactions |-> interactions],
                  result |-> user_learned_preferences'[u], raised |-> FALSE]
        /\ calls' = calls + 1
        /\ UNCHANGED <<user_profiles, recommendation_history,
                       cf_user_profiles, user_similarities, now, stored>>

SpecDecay == InitLearner /\ [][Learn]_vars

(***************************************************************************)
(* The contextual scoring service on its own, over the catalog             *)
(***************************************************************************)
Factor(type, value, confidence) ==
    [type |-> type, value |-> value, confidence |-> confidence]

SunnyFactor ==
    Factor("weather", "condition" :> "sunny" @@ "temperature" :> 25, ROne)

\* the factor of test_apply_weather_context_rainy
RainyFactor ==
    Factor("weather", "condition" :> "rainy" @@ "temperature" :> 20
                       @@ "humidity" :> 90, ROne)

ConfidenceChoices == {RZero, Rat(3, 10), ROne}

\* the factors of test_confidence_weighting, and one of confidence 0
WeightedFactors ==
    {Factor("weather", "condition" :> "sunny", confidence) :
        confidence \in ConfidenceChoices}

FullFactors ==
    {SunnyFactor, RainyFactor,
     Factor("weather", "condition" :> "rainy" @@ "temperature" :> 32
                        @@ "humidity" :> 85, Rat(9, 10)),
     Factor("weather", "condition" :> "stormy" @@ "temperature" :> 20
                        @@ "humidity" :> 60, Rat(9, 10)),
     CrowdFactor,
     Factor("time", "current_time" :> [hour |-> 9], ROne),
     Factor("location", "latitude" :> 222783 @@ "longitude" :> 1141747, ROne),
     Factor("location", "latitude" :> 225000 @@ "longitude" :> 1145000,
            Rat(1, 2)),
     Factor("season", "season" :> "summer", ROne)}

\* factors whose payload lacks the key their handler reads
PartialFactors ==
    {Factor("weather", EmptyMap, ROne),
     Factor("weather", "temperature" :> 35, ROne),
     Factor("crowd", EmptyMap, ROne),
     Factor("time", EmptyMap, ROne),
     Factor("location", "longitude" :> 1141747, ROne),
     Factor("location", "latitude" :> 222783, ROne),
     Factor("season", EmptyMap, ROne)}

FactorChoices == FullFactors \cup PartialFactors \cup WeightedFactors

\* factors of different handlers, supplied together in either order
ComposedFactors ==
    {RainyFactor, CrowdFactor,
     Factor("time", "current_time" :> [hour |-> 9], ROne),
     Factor("location", "latitude" :> 225000 @@ "longitude" :> 1145000,
            Rat(1, 2)),
     Factor("weather", "condition" :> "sunny", Rat(3, 10))}

FactorLists ==
    {<<f>> : f \in FactorChoices}
        \cup {<<f, g>> : f \in FullFactors, g \in PartialFactors}
        \cup {pair \in {<<f, g>> : f \in ComposedFactors, g \in ComposedFactors} :
                 pair[1] # pair[2]}

WeatherPreferenceChoices ==
    {DefaultPreferences,
     [DefaultPreferences EXCEPT !.weather_preferences = <<"indoor_preferred">>],
     [DefaultPreferences EXCEPT !.weather_preferences = <<"outdoor_preferred">>]}

BaseScoreChoices ==
    {<<Rat(1, 2), Rat(1, 2), Rat(1, 2)>>,
     <<Rat(8, 10), Rat(6, 10), Rat(7, 10)>>}

\* apply_contextual_scoring(items, base_scores, contextual_factors,
\* user_preferences)
ApplyContextualScoringAll(items, base_scores, contextual_factors, user_preferences) ==
    IF Len(items) # Len(base_scores) THEN base_scores
    ELSE [k \in 1..Len(items) |->
            ApplyContextualScoring(items[k], base_scores[k],
                                   contextual_factors, user_preferences)]

MaxContextCalls == 1

ContextScore ==
    \E factors \in FactorLists : \E prefs \in WeatherPreferenceChoices :
      \E base_scores \in BaseScoreChoices :
        /\ calls < MaxContextCalls
        /\ calls' = calls + 1
        /\ op' = [name |-> "apply_contextual_scoring", user_id |-> "",
                  args |-> [base_scores |-> base_scores,
                            contextual_factors |-> factors,
                            user_preferences |-> prefs],
                  result |-> ApplyContextualScoringAll(
                                 available_items, base_scores, factors, prefs),
                  raised |-> FALSE]
        /\ UNCHANGED <<user_profiles, recommendation_history,
                       user_learned_preferences, cf_user_profiles,
                       user_similarities, now, stored>>

SpecContext == InitFrom(0) /\ [][ContextScore]_vars

(***************************************************************************)
(* The collaborative service on its own, taking interaction updates        *)
(***************************************************************************)
MaxUpdateCalls == 4

\* four users with one interaction each, as four updates of a fresh
\* service leave it: no similarity was computed yet
FourUsers ==
    [u \in {"u1", "u2", "u3", "u4"} |->
        IF u \in {"u1", "u3"} THEN <<ViewInteraction("item_1")>>
        ELSE <<RatedInteraction("item_2", 4)>>]

SingleInteraction == <<RatedInteraction("item_1", 4)>>

FiveInteractions ==
    <<ViewInteraction("item_1"), ViewInteraction("item_2"),
      ViewInteraction("item_3"), RatedInteraction("item_1", 5),
      RatedInteraction("item_2", 2)>>

InitUpdates ==
    /\ user_profiles = EmptyMap
    /\ recommendation_history = EmptyMap
    /\ user_learned_preferences = EmptyMap
    /\ cf_user_profiles \in {EmptyMap, FourUsers}
    /\ user_similarities = EmptyMap
    /\ now = 0 /\ op = NoOp /\ stored = [u \in Users |-> <<>>] /\ calls = 0

UpdatedBy(cf, u, interactions) ==
    /\ cf_user_profiles' = cf.user_profiles
    /\ user_similarities' = cf.user_similarities
    /\ op' = [name |-> "update_user_interactions", user_id |-> u,
              args |-> [interactions |-> interactions],
              result |-> <<>>, raised |-> FALSE]

UpdateInteractions ==
    \E u \in {"u1", "u5"} : \E interactions \in {SingleInteraction, FiveInteractions} :
        /\ calls < MaxUpdateCalls
        /\ calls' = calls + 1
        /\ UpdatedBy(UpdateUserInteractions(
                         [user_profiles |-> cf_user_profiles,
                          user_similarities |-> user_similarities],
                         u, interactions),
                     u, interactions)
        /\ UNCHANGED <<user_profiles, recommendation_history,
                       user_learned_preferences, now, stored>>

SpecUpdates == InitUpdates /\ [][UpdateInteractions]_vars

(***************************************************************************)
(* Properties                                                              *)
(***************************************************************************)
\* the stored recommendation history of a user, empty when there is none
HistoryIn(histories, u) ==
    IF u \in DOMAIN histories THEN histories[u] ELSE <<>>

History(u) == HistoryIn(recommendation_history, u)

\* a learned weight, 0 for a signal the map does not hold
Weight(m, key) == IF key \in DOMAIN m THEN m[key] ELSE RZero

LearnedMap(ulp, u) == IF u \in DOMAIN ulp THEN ulp[u] ELSE EmptyMap

IssuedTo(u, recommendation_id) ==
    \E k \in 1..Len(History(u)) : History(u)[k].id = recommendation_id

\* the first entry of u's history that carries the id
Issued(u, recommendation_id) ==
    History(u)[CHOOSE k \in 1..Len(History(u)) :
                  /\ History(u)[k].id = recommendation_id
                  /\ \A j \in 1..(k - 1) : History(u)[j].id # recommendation_id]

\* C1: whatever calls were made, every user's stored recommendation
\* history holds at most 100 entries, and they are the most recently stored
\* ones in the order they were stored (the oldest are dropped first).
C1_HistoryKeepsLast100 ==
    \A u \in Users :
        LET h == History(u)
            s == stored[u]
        IN  /\ Len(h) <= 100
            /\ Len(h) = IF Len(s) < 100 THEN Len(s) ELSE 100
            /\ \A k \in 1..Len(h) : h[k] = s[Len(s) - Len(h) + k]

C1_Witness ==
    \E u \in Users :
        /\ op.name = "generate_recommendations"
        /\ op.user_id = u
        /\ Len(stored[u]) > 100
        /\ Len(History(u)) = 100
        /\ History(u)[1] # stored[u][1]

\* C2: process_feedback with a recommendation id that is not in the
\* user's stored history returns without raising and changes nothing: the
\* learned-preference maps, the profiles with their interaction histories,
\* the collaborative model's interaction index and similarity table and
\* the recommendation histories are what they were before the call.
C2_UnknownIdChangesNothing ==
    [][(/\ op'.name = "process_feedback"
        /\ ~IssuedTo(op'.user_id, op'.args.recommendation_id))
       => /\ ~op'.raised
          /\ user_learned_preferences' = user_learned_preferences
          /\ user_profiles' = user_profiles
          /\ cf_user_profiles' = cf_user_profiles
          /\ user_similarities' = user_similarities
          /\ recommendation_history' = recommendation_history]_vars

\* feedback by a user who has a history, on an id issued to another user
C2_Witness ==
    /\ op.name = "process_feedback"
    /\ ~op.raised
    /\ ~IssuedTo(op.user_id, op.args.recommendation_id)
    /\ History(op.user_id) # <<>>
    /\ \E v \in Users \ {op.user_id} : IssuedTo(v, op.args.recommendation_id)

\* C3: process_feedback with an id of the user's stored history, no step
\* faulting, (a) adds (rating - 3)/2 times the learning rate 0.1 to the
\* learned weight of every category of the rated item and, when there is no
\* feedback text, of its budget, duration and crowd signals, (b) appends
\* exactly one 'rate' interaction with the item's id and the rating to the
\* user's profile history, no other profile changing, and (c) appends that
\* same interaction to the collaborative model's record of the user.
C3_KnownIdLearnsAndRecords ==
    [][(/\ op'.name = "process_feedback"
        /\ op'.args.fault = "none"
        /\ IssuedTo(op'.user_id, op'.args.recommendation_id))
       => LET u == op'.user_id
              item == ItemById(Issued(u, op'.args.recommendation_id).item)
              rating == op'.args.rating
              delta == RMul(RDiv(RSub(rating, RInt(3)), RInt(2)), Rat(1, 10))
              old == LearnedMap(user_learned_preferences, u)
              new == LearnedMap(user_learned_preferences', u)
              category_keys ==
                  {<<"category", item.categories[k]>> :
                       k \in 1..Len(item.categories)}
              attribute_keys ==
                  {<<"budget", BudgetBucket(item)>>,
                   <<"duration", DurationBucket(item)>>,
                   <<"crowd", item.crowd_level>>}
              after == user_profiles'[u].interaction_history
              interaction == after[Len(after)]
          IN  /\ ~op'.raised
              /\ \A key \in category_keys :
                     Weight(new, key) = RAdd(Weight(old, key), delta)
              /\ op'.args.feedback = None =>
                     \A key \in attribute_keys :
                         Weight(new, key) = RAdd(Weight(old, key), delta)
              /\ u \in DOMAIN user_profiles
              /\ DOMAIN user_profiles' = DOMAIN user_profiles
              /\ \A v \in DOMAIN user_profiles \ {u} :
                     user_profiles'[v] = user_profiles[v]
              /\ after = Append(user_profiles[u].interaction_history, interaction)
              /\ interaction.interaction_type = "rate"
              /\ interaction.item_id = item.id
              /\ interaction.rating = rating
              /\ u \in DOMAIN cf_user_profiles'
              /\ cf_user_profiles'[u] =
                     (IF u \in DOMAIN cf_user_profiles THEN cf_user_profiles[u]
                      ELSE <<>>) \o <<interaction>>]_vars

\* a second feedback of the user, this one with a rating below 3
C3_Witness ==
    /\ op.name = "process_feedback"
    /\ op.args.fault = "none"
    /\ IssuedTo(op.user_id, op.args.recommendation_id)
    /\ op.args.rating = RInt(2)
    /\ op.user_id \in DOMAIN user_profiles
    /\ Len(user_profiles[op.user_id].interaction_history) = 2
    /\ op.user_id \in DOMAIN cf_user_profiles
    /\ Len(cf_user_profiles[op.user_id]) = 2

\* what get_user_recommendations may return: entries of the user's
\* history that expire strictly later than the read, newest first, none
\* left out that is newer than one returned
ReadsActiveNewestFirst(h, res, now_) ==
    LET active == {k \in 1..Len(h) : h[k].valid_until > now_}
    IN  /\ \A k \in 1..Len(res) : \E j \in active : h[j] = res[k]
        /\ \A k \in 1..(Len(res) - 1) :
               res[k].generated_at >= res[k + 1].generated_at
        /\ \A j \in active : \A k \in 1..Len(res) :
               h[j].generated_at > res[k].generated_at
                   => \E i \in 1..Len(res) : res[i] = h[j]

\* C4 (as stated): get_user_recommendations(user, limit) returns at most
\* limit entries of the user's stored history, each expiring strictly
\* later than the read, newest first (no entry when limit is not
\* positive); it removes nothing from the stored history, and it returns
\* the empty list for a user with no history.
C4_ReadReturnsAtMostLimit ==
    [][op'.name = "get_user_recommendations"
       => /\ Len(op'.result) <= (IF op'.args.limit > 0 THEN op'.args.limit ELSE 0)
          /\ ReadsActiveNewestFirst(History(op'.user_id), op'.result, now)
          /\ recommendation_history' = recommendation_history
          /\ History(op'.user_id) = <<>> => op'.result = <<>>]_vars

\* C4 (amended): get_user_recommendations(user, limit) never raises and
\* changes no store.  With n the number of entries of the user's history
\* that expire strictly later than the read, it returns min(limit, n) of
\* them when limit >= 0 and max(n + limit, 0) of them when limit < 0 (none
\* at all when its body faults), newest first, none left out that is newer
\* than one returned; expired entries stay stored.
C4_ReadReturnsActiveNewestFirst ==
    [][op'.name = "get_user_recommendations"
       => LET h == History(op'.user_id)
              limit == op'.args.limit
              n == Cardinality({k \in 1..Len(h) : h[k].valid_until > now})
          IN  /\ ~op'.raised
              /\ Len(op'.result) =
                     IF op'.args.fault THEN 0
                     ELSE IF limit >= 0 THEN (IF limit < n THEN limit ELSE n)
                     ELSE IF n + limit > 0 THEN n + limit ELSE 0
              /\ ReadsActiveNewestFirst(h, op'.result, now)
              /\ recommendation_history' = recommendation_history
              /\ user_profiles' = user_profiles
              /\ user_learned_preferences' = user_learned_preferences
              /\ cf_user_profiles' = cf_user_profiles
              /\ now' = now]_vars

\* a read that returns an entry while another, expiring in the instant of
\* the read, is held back and stays stored
C4_Witness ==
    /\ op.name = "get_user_recommendations"
    /\ ~op.args.fault
    /\ op.args.limit >= 0
    /\ Len(op.result) >= 1
    /\ \E k \in 1..Len(History(op.user_id)) :
           History(op.user_id)[k].valid_until = now

CatalogIndex(item_id) ==
    CHOOSE k \in 1..Len(available_items) : available_items[k].id = item_id

\* C5: the list generate_recommendations returns is ordered by final
\* personalized score, highest first, entries of equal score are in catalog
\* order, and it holds at most max_results entries.
C5_ResultRankedByScore ==
    op.name = "generate_recommendations"
    => LET r == op.result
       IN  /\ Len(r) <= op.args.request.max_results
           /\ \A i \in 1..Len(r) : \A j \in 1..Len(r) :
                  i < j =>
                      /\ RLe(r[j].personalized_score, r[i].personalized_score)
                      /\ r[i].personalized_score = r[j].personalized_score
                             => CatalogIndex(r[i].item) < CatalogIndex(r[j].item)

\* a result cut to max_results whose two entries have the same score
C5_Witness ==
    /\ op.name = "generate_recommendations"
    /\ Len(op.result) = 2
    /\ op.args.request.max_results = 2
    /\ op.result[1].personalized_score = op.result[2].personalized_score
    /\ \E u \in Users : \E k \in 1..Len(stored[u]) :
           \E j \in 1..Len(stored[u]) :
               RLt(stored[u][j].personalized_score, stored[u][k].personalized_score)

InBudgetBand(budget_range, cost) ==
    /\ 0 <= cost
    /\ budget_range = "low" => cost <= 100
    /\ budget_range = "medium" => cost <= 300
    /\ budget_range = "high" => cost <= 800

TypeRequested(item, request) ==
    request.recommendation_types # <<>> =>
        \E k \in 1..Len(request.recommendation_types) :
            request.recommendation_types[k] = item.type

\* C6 (as stated): every item a fault-free generate_recommendations
\* returns has one of the requested types (when any are given), a cost
\* within the budget band of the user's tier (low to 100, medium to 300,
\* high to 800, luxury unbounded, all from 0) and, if it is a restaurant, a
\* description that contains none of the dietary-restriction texts.
C6_CandidatesSatisfyConstraints ==
    (op.name = "generate_recommendations" /\ op.args.fault = "none")
    => \A k \in 1..Len(op.result) :
           LET item == ItemById(op.result[k].item)
               request == op.args.request
               restrictions == request.preferences.dietary_restrictions
           IN  /\ TypeRequested(item, request)
               /\ InBudgetBand(request.preferences.budget_range,
                               item.estimated_cost)
               /\ item.type = "restaurant" =>
                      \A j \in 1..Len(restrictions) :
                          ~Contains(item.description, restrictions[j])

\* C6 (what the filter ensures): the same, the dietary texts being looked
\* for, as given, in the lower-cased description.
C6_CandidatesSatisfyLowercasedMatch ==
    (op.name = "generate_recommendations" /\ op.args.fault = "none")
    => \A k \in 1..Len(op.result) :
           LET item == ItemById(op.result[k].item)
               request == op.args.request
               restrictions == request.preferences.dietary_restrictions
           IN  /\ TypeRequested(item, request)
               /\ InBudgetBand(request.preferences.budget_range,
                               item.estimated_cost)
               /\ item.type = "restaurant" =>
                      \A j \in 1..Len(restrictions) :
                          ~Contains(Lower(item.description), restrictions[j])

\* a restaurant returned although its description contains a restriction
C6_Witness ==
    /\ op.name = "generate_recommendations"
    /\ op.args.fault = "none"
    /\ \E k \in 1..Len(op.result) :
           LET item == ItemById(op.result[k].item)
               restrictions == op.args.request.preferences.dietary_restrictions
           IN  /\ item.type = "restaurant"
               /\ \E j \in 1..Len(restrictions) :
                      Contains(item.description, restrictions[j])

NoCandidate(request) == FilterCandidateItems(available_items, request) = <<>>

C8_EveryFaultIsReraised ==
    (/\ op.name = "process_feedback"
     /\ IssuedTo(op.user_id, op.args.recommendation_id)
     /\ op.args.fault # "none")
    => op.raised

\* C8 (what the code does): a fault in the collaborative update is raised
\* to the caller; a fault inside the learner's feedback update is not, and
\* the call goes on to record the interaction.
C8_LearnerFaultIsSwallowed ==
    (/\ op.name = "process_feedback"
     /\ IssuedTo(op.user_id, op.args.recommendation_id))
    => /\ op.raised <=> op.args.fault = "collaborative"
       /\ op.user_id \in DOMAIN user_profiles
       /\ user_profiles[op.user_id].interaction_history # <<>>
       /\ op.args.fault = "learner" =>
              (/\ op.user_id \in DOMAIN cf_user_profiles
               /\ cf_user_profiles[op.user_id] # <<>>)

\* feedback whose learner update faulted, returned without an error
C8_Witness ==
    /\ op.name = "process_feedback"
    /\ IssuedTo(op.user_id, op.args.recommendation_id)
    /\ op.args.fault = "learner"
    /\ ~op.raised

InvalidPreferences(preferences) ==
    \/ /\ "budget_range" \in DOMAIN preferences
       /\ preferences["budget_range"] \notin {"low", "medium", "high", "luxury"}
    \/ /\ "activity_level" \in DOMAIN preferences
       /\ preferences["activity_level"] \notin {"low", "moderate", "high", "extreme"}

Supplied(preferences, key, default) ==
    IF key \in DOMAIN preferences THEN preferences[key] ELSE default

\* the preferences update_user_preferences stores for a dict: each field
\* the value supplied, or the default of the field
SuppliedPreferences(preferences) ==
    [interests |-> Supplied(preferences, "interests", <<>>),
     budget_range |-> Supplied(preferences, "budget_range", "medium"),
     group_type |-> Supplied(preferences, "group_type", "solo"),
     dietary_restrictions |-> Supplied(preferences, "dietary_restrictions", <<>>),
     activity_level |-> Supplied(preferences, "activity_level", "moderate"),
     weather_preferences |-> Supplied(preferences, "weather_preferences", <<>>)]

InteractionHistory(profiles, u) ==
    IF u \in DOMAIN profiles THEN profiles[u].interaction_history ELSE <<>>

\* the stored preferences are replaced by the supplied ones and the
\* interaction history is left as it was
ReplacesPreferences(u, preferences) ==
    /\ u \in DOMAIN user_profiles'
    /\ user_profiles'[u].preferences = preferences
    /\ user_profiles'[u].interaction_history = InteractionHistory(user_profiles, u)

\* C10 (as stated): generate_recommendations and update_user_preferences
\* (on a user with a profile, with valid values) both replace the stored
\* preferences by the supplied ones and leave the profile's interaction
\* history and the user's recommendation history unchanged.
C10_BothLeaveHistoriesUnchanged ==
    [][/\ op'.name = "generate_recommendations"
           => /\ ReplacesPreferences(op'.user_id, op'.args.request.preferences)
              /\ HistoryIn(recommendation_history', op'.user_id) = History(op'.user_id)
       /\ (op'.name = "update_user_preferences" /\ ~op'.raised
           /\ op'.user_id \in DOMAIN user_profiles)
           => /\ ReplacesPreferences(op'.user_id,
                                     SuppliedPreferences(op'.args.preferences))
              /\ HistoryIn(recommendation_history', op'.user_id) = History(op'.user_id)]_vars

\* C10 (amended): profiles are keyed by user id, and a profile is created
\* only by the user's first generate_recommendations.  That call replaces
\* the stored preferences by the request's, leaves the interaction history
\* unchanged, and changes the user's recommendation history only by
\* appending what it returns (the oldest entries beyond 100 dropped).
\* update_user_preferences, for a user with a profile and with valid
\* values, replaces every field of the stored preferences by the supplied
\* value or the field's default, leaves both histories unchanged and
\* re-runs preference learning over the interaction history; for a user
\* without a profile, or when it raises, it changes nothing.  Neither call
\* changes another user's profile.
C10_PreferencesReplacedHistoriesKept ==
    [][/\ DOMAIN user_profiles' # DOMAIN user_profiles
           => /\ op'.name = "generate_recommendations"
              /\ DOMAIN user_profiles' = DOMAIN user_profiles \cup {op'.user_id}
       /\ op'.name \in {"generate_recommendations", "update_user_preferences"}
           => \A v \in DOMAIN user_profiles \ {op'.user_id} :
                  user_profiles'[v] = user_profiles[v]
       /\ op'.name = "generate_recommendations"
           => LET u == op'.user_id
                  appended == History(u) \o op'.result
              IN  /\ ReplacesPreferences(u, op'.args.request.preferences)
                  /\ HistoryIn(recommendation_history', u) =
                         IF Len(appended) <= 100 THEN appended
                         ELSE SubSeq(appended, Len(appended) - 99, Len(appended))
       /\ op'.name = "update_user_preferences"
           => LET u == op'.user_id
              IN  IF u \in DOMAIN user_profiles /\ ~op'.raised
                  THEN /\ ReplacesPreferences(u,
                              SuppliedPreferences(op'.args.preferences))
                       /\ recommendation_history' = recommendation_history
                       /\ user_learned_preferences' =
                              LearnFromInteractions(user_learned_preferences, u,
                                  user_profiles[u].interaction_history)
                  ELSE /\ user_profiles' = user_profiles
                       /\ recommendation_history' = recommendation_history
                       /\ user_learned_preferences' = user_learned_preferences]_vars

\* preferences of a user with feedback on record replaced by an update that
\* supplies only some of the fields
C10_Witness ==
    /\ op.name = "update_user_preferences"
    /\ ~op.raised
    /\ op.user_id \in DOMAIN user_profiles
    /\ user_profiles[op.user_id].interaction_history # <<>>
    /\ "dietary_restrictions" \notin DOMAIN op.args.preferences
    /\ user_profiles[op.user_id].preferences =
           SuppliedPreferences(op.args.preferences)

\* the score a list of responses gives an item (its first entry for it)
ScoreIn(recs, item_id) ==
    recs[CHOOSE k \in 1..Len(recs) :
            /\ recs[k].item = item_id
            /\ \A j \in 1..(k - 1) : recs[j].item # item_id].personalized_score

Lists(recs, item_id) == \E k \in 1..Len(recs) : recs[k].item = item_id

\* x comes before y in the list
RankedAbove(recs, x, y) ==
    \E i \in 1..Len(recs) : \E j \in 1..Len(recs) :
        i < j /\ recs[i].item = x /\ recs[j].item = y

\* the interaction history is a rating of 5 on x and a rating of 2 on y
RatedFiveAndTwo(history, x, y) ==
    /\ Len(history) = 2
    /\ \E i \in 1..2 : \E j \in 1..2 :
           /\ history[i].item_id = x /\ history[i].rating = RInt(5)
           /\ history[j].item_id = y /\ history[j].rating = RInt(2)

\* the step is the second request of user u with the preferences of the
\* first, made after u rated x with 5 and the more expensive y with 2;
\* stored[u] is what the first request returned
RerunAfterFeedback(u, x, y) ==
    /\ op'.name = "generate_recommendations"
    /\ op'.user_id = u
    /\ u \in DOMAIN user_profiles
    /\ user_profiles[u].preferences = op'.args.request.preferences
    /\ RatedFiveAndTwo(user_profiles[u].interaction_history, x, y)
    /\ ItemById(x).estimated_cost < ItemById(y).estimated_cost
    /\ Len(stored[u]) <= Len(available_items)
    /\ Lists(stored[u], x) /\ Lists(stored[u], y)
    /\ Lists(op'.result, x) /\ Lists(op'.result, y)

\* C11 (as stated): after a user rated item X with 5 and the more
\* expensive item Y with 2, the same request gives X a larger score lead
\* over Y than the first request (made before any feedback) did, or ranks
\* X above Y where the first request did not.
C11_FeedbackRaisesRatedItem ==
    [][\A x \in ItemIds : \A y \in ItemIds :
          RerunAfterFeedback("u1", x, y)
          => \/ RLt(RSub(ScoreIn(stored["u1"], x), ScoreIn(stored["u1"], y)),
                    RSub(ScoreIn(op'.result, x), ScoreIn(op'.result, y)))
             \/ /\ RankedAbove(op'.result, x, y)
                /\ ~RankedAbove(stored["u1"], x, y)]_vars

\* C11 (what holds): in the request made after the feedback the item
\* rated 5 scores strictly higher than the item rated 2 and is ranked
\* above it.
C11_RatedFiveOutranksRatedTwo ==
    [][\A x \in ItemIds : \A y \in ItemIds :
          RerunAfterFeedback("u1", x, y)
          => /\ RLt(ScoreIn(op'.result, y), ScoreIn(op'.result, x))
             /\ RankedAbove(op'.result, x, y)]_vars

\* the second request of a user who rated item_1 with 5 and item_2 with 2
C11_Witness ==
    /\ op.name = "generate_recommendations"
    /\ op.user_id \in DOMAIN user_profiles
    /\ RatedFiveAndTwo(user_profiles[op.user_id].interaction_history,
                       "item_1", "item_2")
    /\ Len(stored[op.user_id]) = 2 * Len(available_items)
    /\ RLt(RSub(ScoreIn(op.result, "item_1"), ScoreIn(op.result, "item_2")),
           RSub(ScoreIn(stored[op.user_id], "item_1"),
                ScoreIn(stored[op.user_id], "item_2")))

\* C12: every response generate_recommendations returns, and every response
\* a history holds, expires 24 hours after its creation, so strictly later
\* than it was created, and was created no later than the present (no
\* later than the call returned).
C12_ExpiryAfterCreation ==
    /\ \A u \in DOMAIN recommendation_history :
           \A k \in 1..Len(recommendation_history[u]) :
               /\ recommendation_history[u][k].valid_until
                      > recommendation_history[u][k].generated_at
               /\ recommendation_history[u][k].valid_until
                      = recommendation_history[u][k].generated_at + 24
               /\ recommendation_history[u][k].generated_at <= now
    /\ op.name = "generate_recommendations"
           => \A k \in 1..Len(op.result) :
                  /\ op.result[k].valid_until > op.result[k].generated_at
                  /\ op.result[k].valid_until = op.result[k].generated_at + 24
                  /\ op.result[k].generated_at <= now

\* a call returning responses created at different times, the last of them
\* in the instant the call returns
C12_Witness ==
    /\ op.name = "generate_recommendations"
    /\ \E k \in 1..Len(op.result) : \E j \in 1..Len(op.result) :
           /\ op.result[k].generated_at < op.result[j].generated_at
           /\ op.result[j].generated_at = now

InteractedWith(history, item_id) ==
    \E k \in 1..Len(history) : history[k].item_id = item_id

\* some user of u's similarity row holds an interaction with the item
NeighbourInteracted(u, item_id) ==
    /\ u \in DOMAIN user_similarities
    /\ \E v \in DOMAIN user_similarities[u] :
           /\ v \in DOMAIN cf_user_profiles
           /\ InteractedWith(cf_user_profiles[v], item_id)

\* C13: generate_collaborative_recommendations for a user returns no item
\* of that user's interaction history and no item that none of the similar
\* users interacted with (such an item is left out, it is not returned with
\* score 0); it returns at most top_k items, no item twice.
C13_CollaborativeSkipsOwnAndUnseen ==
    op.name = "generate_collaborative_recommendations"
    => /\ Len(op.result) <= op.args.top_k
       /\ \A k \in 1..Len(op.result) :
              /\ op.user_id \in DOMAIN cf_user_profiles
              /\ ~InteractedWith(cf_user_profiles[op.user_id], op.result[k].item)
              /\ NeighbourInteracted(op.user_id, op.result[k].item)
              /\ \A j \in 1..Len(op.result) :
                     op.result[j].item = op.result[k].item => j = k

\* a user with a history of its own is recommended one item while another
\* item, which no similar user interacted with, is left out
C13_Witness ==
    /\ op.name = "generate_collaborative_recommendations"
    /\ op.args.top_k = 20
    /\ Len(op.result) = 1
    /\ cf_user_profiles[op.user_id] # <<>>
    /\ \E i \in ItemIds :
           /\ ~InteractedWith(cf_user_profiles[op.user_id], i)
           /\ ~NeighbourInteracted(op.user_id, i)

\* m is max(1, largest magnitude of the values of prefs)
IsScale(prefs, m) ==
    /\ RLe(ROne, m)
    /\ \A k \in DOMAIN prefs : RLe(RAbs(prefs[k]), m)
    /\ m = ROne \/ \E k \in DOMAIN prefs : RAbs(prefs[k]) = m

Sign(v) == IF v[1] < 0 THEN -1 ELSE IF v[1] > 0 THEN 1 ELSE 0

\* C14: get_learned_preferences returns the stored map of the user with
\* every value divided by max(1, largest magnitude stored): magnitudes are
\* at most 1, signs and the order of the values are kept, a map within
\* range comes back unchanged, reading the result as a stored map gives the
\* result again, the store is not changed, and a user without a stored map
\* gets the empty map.
C14_ReadNormalizesByLargestMagnitude ==
    [][op'.name = "get_learned_preferences"
       => LET prefs == LearnedMap(user_learned_preferences, op'.user_id)
              res == op'.result
          IN  /\ user_learned_preferences' = user_learned_preferences
              /\ op'.user_id \notin DOMAIN user_learned_preferences
                     => res = EmptyMap
              /\ DOMAIN res = DOMAIN prefs
              /\ \E m \in {ROne} \cup {RAbs(prefs[k]) : k \in DOMAIN prefs} :
                     /\ IsScale(prefs, m)
                     /\ \A k \in DOMAIN prefs : res[k] = RDiv(prefs[k], m)
              /\ \A k \in DOMAIN res :
                     /\ RLe(RAbs(res[k]), ROne)
                     /\ Sign(res[k]) = Sign(prefs[k])
                     /\ \A j \in DOMAIN res :
                            RLt(prefs[j], prefs[k]) <=> RLt(res[j], res[k])
              /\ (\A k \in DOMAIN prefs : RLe(RAbs(prefs[k]), ROne))
                     => res = prefs
              /\ GetLearnedPreferences("u1" :> res, "u1") = res]_vars

\* a stored map with a value above 1 and a negative one, read scaled down
C14_Witness ==
    /\ op.name = "get_learned_preferences"
    /\ op.user_id \in DOMAIN user_learned_preferences
    /\ op.result # user_learned_preferences[op.user_id]
    /\ \E k \in DOMAIN op.result : \E j \in DOMAIN op.result :
           /\ op.result[k] = ROne
           /\ RLt(op.result[j], RZero) /\ RLt(Rat(-1, 1), op.result[j])

\* the merged preferences and the item of a predict_user_rating call
MergedOf(o) ==
    MergeExplicitAndLearnedPreferences(
        o.args.preferences,
        GetLearnedPreferences(user_learned_preferences, o.user_id))

\* the weights, in merged, of those of the keys that are present
RECURSIVE PresentWeights(_, _)
PresentWeights(merged, keys) ==
    IF keys = <<>> THEN <<>>
    ELSE ScoreOf(merged, Head(keys)) \o PresentWeights(merged, Tail(keys))

OwnCategoryKeys(item) ==
    [k \in 1..Len(item.categories) |->
        <<"category", NameLower(item.categories[k])>>]

OwnAttributeKeys(item) ==
    <<<<"budget", BudgetBucket(item)>>, <<"duration", DurationBucket(item)>>,
      <<"crowd", item.crowd_level>>>>

Clamp15(v) == RMax(RInt(1), RMin(RInt(5), v))

ReferenceOver(cats, attrs) ==
    IF cats = <<>> /\ attrs = <<>> THEN RInt(3)
    ELSE Clamp15(RAdd(RAdd(RInt(3), SumSeq(cats)),
                      IF attrs = <<>> THEN RZero
                      ELSE RDiv(SumSeq(attrs), RInt(Len(attrs)))))

ReferenceRating(merged, item) ==
    ReferenceOver(PresentWeights(merged, OwnCategoryKeys(item)),
                  PresentWeights(merged, OwnAttributeKeys(item)))

BudgetOrder == <<"low", "medium", "high", "luxury">>

DurationOrder == <<"short", "medium", "long">>

\* the signal of the item's own bucket is present, or no signal of a later
\* bucket of the family is
OwnOrNoLater(merged, family, order, own) ==
    \/ Has(merged, <<family, own>>)
    \/ \A k \in 1..Len(order) : \A j \in 1..(k - 1) :
           order[j] = own => ~Has(merged, <<family, order[k]>>)

\* C15 (as stated): the prediction is the clamp to [1,5] of 3.0 plus the
\* present category signals of the item plus the average of the present
\* signals of the item's own budget bucket, own duration bucket and own
\* crowd level, and exactly 3.0 when none is present; a signal of a bucket
\* the item does not fall into never contributes.
C15_PredictionEqualsReference ==
    op.name = "predict_user_rating"
        => op.result = ReferenceRating(MergedOf(op), ItemById(op.args.item_id))

\* C15 (what the code does): the prediction lies in [1,5], and it equals
\* the reference whenever, for budget and for duration, the signal of the
\* item's own bucket is present or no signal of a later bucket is.
C15_PredictionEqualsReferenceUnlessFallThrough ==
    op.name = "predict_user_rating"
        => LET merged == MergedOf(op)
               item == ItemById(op.args.item_id)
           IN  /\ RLe(RInt(1), op.result) /\ RLe(op.result, RInt(5))
               /\ (/\ OwnOrNoLater(merged, "budget", BudgetOrder,
                                    BudgetBucket(item))
                   /\ OwnOrNoLater(merged, "duration", DurationOrder,
                                    DurationBucket(item)))
                      => op.result = ReferenceRating(merged, item)

\* a prediction from learned and explicit signals of the item's own
\* buckets and categories that is neither the neutral rating nor clamped
C15_Witness ==
    /\ op.name = "predict_user_rating"
    /\ op.user_id \in DOMAIN user_learned_preferences
    /\ LET merged == MergedOf(op)
           item == ItemById(op.args.item_id)
       IN  /\ Has(merged, <<"budget", BudgetBucket(item)>>)
           /\ Has(merged, <<"duration", DurationBucket(item)>>)
           /\ Has(merged, <<"crowd", item.crowd_level>>)
           /\ PresentWeights(merged, OwnCategoryKeys(item)) # <<>>
    /\ op.result \notin {RInt(1), RInt(3), RInt(5)}

\* C16 (as stated): for a user without learned preferences and with default
\* explicit preferences the prediction is exactly 3.0, whatever the item.
C16_FreshUserPredictsNeutral ==
    (/\ op.name = "predict_user_rating"
     /\ LearnedMap(user_learned_preferences, op.user_id) = EmptyMap
     /\ op.args.preferences = DefaultPreferences)
        => op.result = RInt(3)

\* C16 (what the code does): default explicit preferences put the signals
\* budget_medium and duration_medium, weight 1.5 each, into the merged map,
\* so for a user without learned preferences every item that costs less
\* than 300 or lasts less than 240 minutes is predicted 4.5.
C16_FreshUserPredictsFromDefaults ==
    (/\ op.name = "predict_user_rating"
     /\ LearnedMap(user_learned_preferences, op.user_id) = EmptyMap
     /\ op.args.preferences = DefaultPreferences)
        => LET item == ItemById(op.args.item_id)
           IN  (item.estimated_cost < 300 \/ item.estimated_duration < 240)
                   => op.result = Rat(9, 2)

C16_Witness ==
    /\ op.name = "predict_user_rating"
    /\ op.user_id \notin DOMAIN user_learned_preferences
    /\ op.args.preferences = DefaultPreferences
    /\ op.args.item_id = "item_3"
    /\ op.result = Rat(9, 2)

\* the signals of the user of a learn_from_interactions call as the loop
\* over the interactions leaves them, before the decay
BeforeDecay(o) ==
    LearnAll(LearnedMap(user_learned_preferences, o.user_id),
             o.args.interactions)

\* C19 (as stated): the decay at the end of learn_from_interactions
\* multiplies every signal by 0.95 and resets it to 0 exactly when the
\* magnitude of the decayed value is below 0.01; a negative signal whose
\* decayed magnitude is at least 0.01 keeps its negative decayed value.
C19_DecayResetsSmallMagnitudes ==
    [][(op'.name = "learn_from_interactions" /\ op'.args.interactions # <<>>)
       => LET before == BeforeDecay(op')
              after == user_learned_preferences'[op'.user_id]
          IN  /\ DOMAIN after = DOMAIN before
              /\ \A key \in DOMAIN after :
                     after[key] =
                        IF RLt(RAbs(RMul(before[key], Rat(95, 100))),
                               Rat(1, 100))
                        THEN RZero
                        ELSE RMul(before[key], Rat(95, 100))]_vars

\* C19 (what the code does): the decayed value is compared with 0.01 as a
\* signed number, so a signal is kept, multiplied by 0.95, exactly when
\* its decayed value is at least 0.01, and every other signal, every
\* negative one included, is reset to 0.
C19_DecayResetsEveryNegativeSignal ==
    [][(op'.name = "learn_from_interactions" /\ op'.args.interactions # <<>>)
       => LET before == BeforeDecay(op')
              after == user_learned_preferences'[op'.user_id]
          IN  /\ DOMAIN after = DOMAIN before
              /\ \A key \in DOMAIN after :
                     /\ RLe(RZero, after[key])
                     /\ RLe(Rat(1, 100), RMul(before[key], Rat(95, 100)))
                            => after[key] = RMul(before[key], Rat(95, 100))
                     /\ RLt(before[key], RZero) => after[key] = RZero]_vars

\* a learning round over a store with a signal of -1/2, which comes out 0,
\* and one of 3/2, which comes out 0.95 * 3/2
C19_Witness ==
    /\ op.name = "learn_from_interactions"
    /\ op.args.interactions = <<ViewInteraction("item_9")>>
    /\ calls = 1
    /\ op.result = (<<"category", "outdoor">> :> Rat(57, 40)
                       @@ <<"budget", "low">> :> RZero
                       @@ <<"crowd", "low">> :> RZero)

ExpectedKeys(type) ==
    CASE type = "weather" -> {"condition"}
      [] type = "crowd" -> {"overall_crowd_level"}
      [] type = "time" -> {"current_time"}
      [] type = "location" -> {"latitude", "longitude"}
      [] type = "season" -> {"season"}

LacksExpectedKey(factor) == ~(ExpectedKeys(factor.type) \subseteq DOMAIN factor.value)

LastOf(list) == list[Len(list)]

\* the scores of a call as they are before its last factor is applied
BeforeLastFactor(o) ==
    ApplyContextualScoringAll(
        available_items, o.args.base_scores,
        SubSeq(o.args.contextual_factors, 1, Len(o.args.contextual_factors) - 1),
        o.args.user_preferences)

\* C17 (as stated): a factor of any type whose payload lacks an expected
\* key never makes apply_contextual_scoring raise and leaves every score as
\* it was before that factor, whatever the items and the preferences.
C17_MissingKeyIsNoOp ==
    (/\ op.name = "apply_contextual_scoring"
     /\ LacksExpectedKey(LastOf(op.args.contextual_factors)))
        => ~op.raised /\ op.result = BeforeLastFactor(op)

\* C17 (what the code does): such a factor never makes the call raise; a
\* time or location factor is then a no-op, while a weather factor is
\* applied with the condition 'cloudy' (temperature, humidity and the
\* user's weather preferences still count), a crowd factor still applies
\* each item's crowd weight, and a season factor is applied as 'spring'.
C17_MissingKeyFallsBackToDefault ==
    (/\ op.name = "apply_contextual_scoring"
     /\ LacksExpectedKey(LastOf(op.args.contextual_factors)))
        => LET f == LastOf(op.args.contextual_factors)
               before == BeforeLastFactor(op)
               prefs == op.args.user_preferences
               filled(key, default) ==
                   [f EXCEPT !.value = (key :> default) @@ f.value]
           IN  /\ ~op.raised
               /\ f.type \in {"time", "location"} => op.result = before
               /\ \A k \in 1..Len(available_items) :
                     /\ f.type = "weather" =>
                           op.result[k] =
                              ApplyWeatherContext(available_items[k], before[k],
                                                  filled("condition", "cloudy"),
                                                  prefs)
                     /\ f.type = "crowd" =>
                           op.result[k] =
                              Adjusted(before[k],
                                       CrowdImpactWeights(
                                           available_items[k].crowd_level),
                                       f.confidence)
                     /\ f.type = "season" =>
                           op.result[k] =
                              ApplySeasonalContext(available_items[k], before[k],
                                                   filled("season", "spring"))

\* a crowd factor without overall_crowd_level that lowers the score of the
\* crowded item_1 by a fifth
C17_Witness ==
    /\ op.name = "apply_contextual_scoring"
    /\ op.args.contextual_factors = <<Factor("crowd", EmptyMap, ROne)>>
    /\ op.result[1] = RMul(op.args.base_scores[1], Rat(8, 10))
    /\ op.result[2] = op.args.base_scores[2]

InteractionCount(profiles, u) ==
    IF u \in DOMAIN profiles THEN Len(profiles[u]) ELSE 0

\* C20 (as stated): the update_user_interactions call that takes a user's
\* accumulated interaction count from below 5 to 5 or more rebuilds the
\* matrix and the similarity table, so that the table then holds the user.
C20_CrossingThresholdRebuilds ==
    [][(/\ op'.name = "update_user_interactions"
        /\ InteractionCount(cf_user_profiles, op'.user_id) < 5
        /\ InteractionCount(cf_user_profiles', op'.user_id) >= 5)
       => op'.user_id \in DOMAIN user_similarities']_vars

\* C20 (what the code does): an update rebuilds the similarity table, for
\* every user the service holds, exactly when the batch of this one call
\* has at least 5 interactions and the service holds at least 5 users;
\* any other update leaves the table as it was, whatever the user has
\* accumulated.
C20_RebuildOnLargeBatchAndFiveUsers ==
    [][op'.name = "update_user_interactions"
       => IF /\ Len(op'.args.interactions) >= 5
             /\ Cardinality(DOMAIN cf_user_profiles') >= 5
          THEN /\ DOMAIN user_similarities' = DOMAIN cf_user_profiles'
               /\ \A u \in DOMAIN user_similarities' :
                     DOMAIN user_similarities'[u] =
                        DOMAIN cf_user_profiles' \ {u}
          ELSE user_similarities' = user_similarities]_vars

\* a fifth user arriving with a batch of five: the table is rebuilt and
\* holds all five users
C20_Witness ==
    /\ op.name = "update_user_interactions"
    /\ op.user_id = "u5"
    /\ Len(op.args.interactions) = 5
    /\ DOMAIN user_similarities = {"u1", "u2", "u3", "u4", "u5"}

\* the interaction history the collaborative model holds for u
MirroredHistory(profiles, u) ==
    IF u \in DOMAIN profiles THEN profiles[u] ELSE <<>>

IsPrefixOf(a, b) == Len(a) <= Len(b) /\ SubSeq(b, 1, Len(a)) = a

Mirrored(u) ==
    InteractionHistory(user_profiles, u)
        = MirroredHistory(cf_user_profiles, u)

InUnit(v) == RLe(RZero, v) /\ RLe(v, ROne)

\* the content cosines a request of the feedback loop is served with
CosinesOf(request) ==
    (CHOOSE in \in ScenarioInputs : in[1] = request.preferences)[2]

InteractedWithItem(profile, item_id) ==
    \E k \in 1..Len(profile.interaction_history) :
        profile.interaction_history[k].item_id = item_id

\* the three scores _generate_hybrid_recommendations combines for the item
\* of a returned response, in the state the call leaves
ContentComponent(o, item_id) ==
    ScoreOrDefault(GenerateContentBasedRecommendations(
                       user_profiles'[o.user_id], ItemById(item_id),
                       CosinesOf(o.args.request)[item_id]))

CollaborativeComponent(o, item_id) ==
    ScoreOrDefault(GenerateCollaborativeRecommendations(
                       [user_profiles |-> cf_user_profiles',
                        user_similarities |-> user_similarities'],
                       o.user_id, ItemById(item_id)))

PreferenceComponent(o, item_id) ==
    RDiv(RSub(PredictUserRating(user_learned_preferences', o.user_id,
                                ItemById(item_id), o.args.request.preferences),
              ROne),
         RInt(4))

\* C22 (as stated): for every candidate each of the three scores that go
\* into the weighted combination lies in [0,1]: the content score, the
\* collaborative score (0.5 when the collaborative model returns nothing)
\* and (predicted rating - 1)/4.
C22_ComponentScoresInUnitInterval ==
    [][op'.name = "generate_recommendations"
       => \A k \in 1..Len(op'.result) :
             /\ InUnit(ContentComponent(op', op'.result[k].item))
             /\ InUnit(CollaborativeComponent(op', op'.result[k].item))
             /\ InUnit(PreferenceComponent(op', op'.result[k].item))]_vars

\* C22 (what the code does): the collaborative score and the
\* preference-learning score lie in [0,1]; the content score is 0.5 for an
\* item the user interacted with and otherwise the boosted cosine, which is
\* not clamped: it is negative exactly when the cosine is.
C22_ContentScoreFollowsCosine ==
    [][op'.name = "generate_recommendations"
       => \A k \in 1..Len(op'.result) :
             LET id == op'.result[k].item
                 content == ContentComponent(op', id)
             IN  /\ InUnit(CollaborativeComponent(op', id))
                 /\ InUnit(PreferenceComponent(op', id))
                 /\ IF InteractedWithItem(user_profiles'[op'.user_id], id)
                    THEN content = Rat(1, 2)
                    ELSE RLt(content, RZero)
                            <=> RLt(CosinesOf(op'.args.request)[id], RZero)]_vars

\* the ferry ride, whose cosine to a fresh profile is negative, returned
\* with a personalized score that its negative content score pulls below
\* 0.25
C22_Witness ==
    /\ op.name = "generate_recommendations"
    /\ InteractionHistory(user_profiles, op.user_id) = <<>>
    /\ \E k \in 1..Len(op.result) :
          /\ op.result[k].item = "item_3"
          /\ RLt(op.result[k].personalized_score, Rat(1, 4))

\* the multiplier the handler of a factor applies to an item at full
\* confidence
RawAdjustment(item, factor, user_preferences) ==
    ApplyFactor(item, ROne, [factor EXCEPT !.confidence = ROne],
                user_preferences)

\* the size of the change a factor makes to a score
ChangeBy(item, score, factor, user_preferences) ==
    RAbs(RSub(ApplyFactor(item, score, factor, user_preferences), score))

\* C23: a contextual factor multiplies every item's current score by
\* 1 + (raw_adjustment - 1) * confidence, where raw_adjustment is what its
\* handler applies at confidence 1: a factor of confidence 0 leaves every
\* score unchanged, the size of the change does not shrink when the
\* confidence grows, two factors give the input score times the two
\* per-factor multipliers, and there is one output score per item.
C23_ConfidenceWeightedMultipliers ==
    op.name = "apply_contextual_scoring"
        => LET base == op.args.base_scores
               factors == op.args.contextual_factors
               prefs == op.args.user_preferences
           IN  /\ Len(op.result) = Len(available_items)
               /\ \A k \in 1..Len(available_items) :
                    LET item == available_items[k]
                    IN  /\ Len(factors) = 1
                            => /\ op.result[k]
                                    = RMul(base[k],
                                           RAdd(ROne,
                                                RMul(RSub(RawAdjustment(
                                                              item, factors[1],
                                                              prefs), ROne),
                                                     factors[1].confidence)))
                               /\ factors[1].confidence = RZero
                                    => op.result[k] = base[k]
                               /\ \A confidence \in ConfidenceChoices :
                                    RLe(factors[1].confidence, confidence)
                                      => RLe(RAbs(RSub(op.result[k], base[k])),
                                             ChangeBy(item, base[k],
                                                      [factors[1] EXCEPT
                                                         !.confidence =
                                                           confidence],
                                                      prefs))
                        /\ Len(factors) = 2
                            => RMul(op.result[k], base[k])
                                 = RMul(ApplyFactor(item, base[k], factors[1],
                                                    prefs),
                                        ApplyFactor(item, base[k], factors[2],
                                                    prefs))

\* the sunny factor of confidence 0.3 raising the outdoor item_1 from 0.5
\* by 0.3 of the fifth it gains at full confidence
C23_Witness ==
    /\ op.name = "apply_contextual_scoring"
    /\ op.args.contextual_factors
         = <<Factor("weather", "condition" :> "sunny", Rat(3, 10))>>
    /\ op.args.user_preferences.weather_preferences = <<>>
    /\ op.args.base_scores[1] = Rat(1, 2)
    /\ op.result[1] = Rat(53, 100)
    /\ op.result[2] = Rat(1, 2)

\* C24 (as stated): under a rainy weather factor of confidence 1, every
\* item classified indoor gets a strictly higher score than its input and
\* every item classified outdoor a strictly lower one, whatever its
\* weather_dependent flag.
C24_RainyRaisesIndoorLowersOutdoor ==
    (/\ op.name = "apply_contextual_scoring"
     /\ op.args.contextual_factors = <<RainyFactor>>)
        => \A k \in 1..Len(available_items) :
              LET item == available_items[k]
              IN  /\ ItemEnvironment[item.id] = "indoor"
                      => RLt(op.args.base_scores[k], op.result[k])
                  /\ ItemEnvironment[item.id] = "outdoor"
                      => RLt(op.result[k], op.args.base_scores[k])

\* C24 (as the code behaves): under the rainy factor of confidence 1 an
\* item with weather_dependent true gets a strictly lower score when it is
\* classified outdoor and a strictly higher one when it is classified
\* indoor; an item with weather_dependent false classified indoor keeps
\* its input score, unless the user carries the indoor_preferred tag, which
\* raises it by a tenth.
C24_RainyMultiplierOnlyIfDependent ==
    (/\ op.name = "apply_contextual_scoring"
     /\ op.args.contextual_factors = <<RainyFactor>>)
        => \A k \in 1..Len(available_items) :
              LET item == available_items[k]
                  base == op.args.base_scores[k]
              IN  /\ (item.weather_dependent
                      /\ ItemEnvironment[item.id] = "outdoor")
                        => RLt(op.result[k], base)
                  /\ (item.weather_dependent
                      /\ ItemEnvironment[item.id] = "indoor")
                        => RLt(base, op.result[k])
                  /\ (~item.weather_dependent
                      /\ ItemEnvironment[item.id] = "indoor"
                      /\ ~InList("indoor", item.categories)
                      /\ ~InList("air-conditioned", item.categories))
                        => op.result[k]
                             = IF InList("indoor_preferred",
                                         op.args.user_preferences
                                             .weather_preferences)
                               THEN RMul(base, Rat(11, 10)) ELSE base

\* the rainy factor lowering the outdoor item_1 and leaving the indoor
\* item_2, whose weather_dependent flag is false, at its input score
C24_Witness ==
    /\ op.name = "apply_contextual_scoring"
    /\ op.args.contextual_factors = <<RainyFactor>>
    /\ op.args.user_preferences.weather_preferences = <<>>
    /\ ItemEnvironment["item_1"] = "outdoor"
    /\ RLt(op.result[1], op.args.base_scores[1])
    /\ ItemEnvironment["item_2"] = "indoor" /\ ~Item2.weather_dependent
    /\ op.result[2] = op.args.base_scores[2]

(***************************************************************************)
(* Alternatives: _find_alternatives over the items whose features the      *)
(* content service holds.  The cosine of two item vectors is an input; the *)
(* three items of the mock catalog have the cosines -0.393 (item_1,        *)
(* item_2), -0.607 (item_1, item_3) and -0.253 (item_2, item_3), so a      *)
(* fourth item is added to let a similarity pass the floor                 *)
(***************************************************************************)
FeatureItemIds == <<"item_1", "item_2", "item_3", "item_4">>

SimilarityChoices == {Rat(-393, 1000), Rat(1, 2), Rat(9, 10)}

SimilarityFloor == Rat(1, 2)

AlternativesCap == 2

AlternativesTopK == 3

\* the ids other than item_id, in the order of the item_features dict
OtherItems(item_id) ==
    SelectSeq(FeatureItemIds, LAMBDA other : other # item_id)

\* get_item_similarities(item_id, top_k): the other items with their
\* cosine to item_id, sorted by cosine descending, the first top_k
GetItemSimilarities(item_id, similarity, top_k) ==
    IF ~InSeq(item_id, FeatureItemIds) THEN <<>>
    ELSE LET others == OtherItems(item_id)
             pairs == [k \in 1..Len(others) |->
                          [id |-> others[k], similarity |-> similarity[others[k]]]]
         IN  Take(SortDescBy(pairs, [k \in 1..Len(others) |->
                                        similarity[others[k]]]),
                  top_k)

\* the similar items of any similarity in the candidate list
FindAlternativesAnySimilarity(item_id, candidate_ids, similarity) ==
    LET similar_items ==
            GetItemSimilarities(item_id, similarity, AlternativesTopK)
        kept == SelectSeq(similar_items,
                          LAMBDA pair : InSeq(pair.id, candidate_ids))
    IN  Take([k \in 1..Len(kept) |-> kept[k].id], AlternativesCap)

\* _find_alternatives(item, candidate_items): the ids of the alternatives
FindAlternatives(item_id, candidate_ids, similarity) ==
    LET similar_items ==
            GetItemSimilarities(item_id, similarity, AlternativesTopK)
        kept == SelectSeq(similar_items,
                          LAMBDA pair : /\ InSeq(pair.id, candidate_ids)
                                        /\ RLt(SimilarityFloor, pair.similarity))
    IN  Take([k \in 1..Len(kept) |-> kept[k].id], AlternativesCap)

\* alternatives=[] at construction; if request.include_alternatives:
\* rec_response.alternatives = await self._find_alternatives(...)
AlternativesOf(include_alternatives, item_id, candidate_ids, similarity) ==
    IF include_alternatives
    THEN FindAlternatives(item_id, candidate_ids, similarity) ELSE <<>>

\* the candidate lists that hold the item, in catalog order
CandidateLists(item_id) ==
    {SelectSeq(FeatureItemIds, LAMBDA id : id \in chosen) :
        chosen \in {c \in SUBSET {FeatureItemIds[k] : k \in 1..Len(FeatureItemIds)} :
                        item_id \in c}}

MaxAlternativeCalls == 1

Alternatives ==
    \E k \in 1..Len(FeatureItemIds) : \E include_alternatives \in BOOLEAN :
      \E candidate_ids \in CandidateLists(FeatureItemIds[k]) :
        \E similarity \in [{FeatureItemIds[j] : j \in 1..Len(FeatureItemIds)}
                              \ {FeatureItemIds[k]} -> SimilarityChoices] :
          /\ calls < MaxAlternativeCalls
          /\ calls' = calls + 1
          /\ op' = [name |-> "find_alternatives", user_id |-> "",
                    args |-> [item |-> FeatureItemIds[k],
                              candidate_items |-> candidate_ids,
                              similarity |-> similarity,
                              include_alternatives |-> include_alternatives],
                    result |-> AlternativesOf(include_alternatives,
                                              FeatureItemIds[k], candidate_ids,
                                              similarity),
                    raised |-> FALSE]
          /\ UNCHANGED <<user_profiles, recommendation_history,
                         user_learned_preferences, cf_user_profiles,
                         user_similarities, now, stored>>

SpecAlternatives == InitFrom(0) /\ [][Alternatives]_vars

\* C25: the alternatives attached to a recommendation number at most 2,
\* never contain the recommended item, each have a content similarity
\* above 0.5 to it, are all members of the candidate list of the request,
\* and are empty when the request does not ask for alternatives.
C25_AlternativesBounded ==
    op.name = "find_alternatives"
        => /\ Len(op.result) <= 2
           /\ \A k \in 1..Len(op.result) :
                /\ op.result[k] # op.args.item
                /\ RLt(Rat(1, 2), op.args.similarity[op.result[k]])
                /\ InSeq(op.result[k], op.args.candidate_items)
           /\ ~op.args.include_alternatives => op.result = <<>>

\* item_1 with three candidates equally similar above 0.5: the first two
\* are its alternatives, the third is cut
C25_Witness ==
    /\ op.name = "find_alternatives"
    /\ op.args.item = "item_1"
    /\ op.args.include_alternatives
    /\ op.args.candidate_items = FeatureItemIds
    /\ op.args.similarity
         = ("item_2" :> Rat(9, 10) @@ "item_3" :> Rat(9, 10)
            @@ "item_4" :> Rat(9, 10))
    /\ op.result = <<"item_2", "item_3">>

(***************************************************************************)
(* The learner on the event loop: requests of user u1 are tasks of one     *)
(* asyncio loop.  A task keeps the loop from one suspension to the next;   *)
(* awaiting a coroutine suspends the task only if that coroutine awaits    *)
(* something that is not ready.  _apply_temporal_decay and                 *)
(* _process_text_feedback contain no await at all.  The loop's state is    *)
(* kept in op: the task on the loop, each updater's position, and the maps *)
(* at the boundaries of whole updates                                      *)
(***************************************************************************)
\* whether awaiting the coroutine hands the loop to another task
SuspendsAlways(coroutine) == TRUE

Suspends(coroutine) == FALSE

LoopUser == "u1"

LoopFeedbackText == <<"L", "o", "c", "a", "l", " ", "b", "u", "t", " ", "c", "r", "o", "w", "d", "e", "d">>

LoopFeedbackChoices ==
    {<<RInt(5), None>>, <<RInt(2), LoopFeedbackText>>}

MaxLoopUpdates == 2

LoopState(running, learn_pc, pending, batch, feedback_pc, feedback, whole, observed) ==
    [name |-> "event_loop", user_id |-> LoopUser,
     args |-> [running |-> running, learn_pc |-> learn_pc,
               pending |-> pending, batch |-> batch,
               feedback_pc |-> feedback_pc, feedback |-> feedback,
               whole |-> whole],
     result |-> observed, raised |-> FALSE]

InitLoop ==
    /\ user_profiles = EmptyMap
    /\ recommendation_history = EmptyMap
    /\ user_learned_preferences \in
           {EmptyMap,
            LoopUser :> (<<"category", "scenic">> :> Rat(3, 2)
                         @@ <<"budget", "low">> :> Rat(1, 100))}
    /\ cf_user_profiles = EmptyMap
    /\ user_similarities = EmptyMap
    /\ now = 0 /\ stored = [u \in Users |-> <<>>] /\ calls = 0
    /\ op = LoopState("none", "idle", <<>>, <<>>, "idle", None,
                      {LearnedMap(user_learned_preferences, LoopUser)}, None)

LoopFrame ==
    UNCHANGED <<user_profiles, recommendation_history, cf_user_profiles,
                user_similarities, now, stored>>

SetLearned(m) ==
    user_learned_preferences' =
        [u \in DOMAIN user_learned_preferences \cup {LoopUser} |->
            IF u = LoopUser THEN m ELSE user_learned_preferences[u]]

\* learn_from_interactions entered: the user's entry is created
LearnEnter ==
    \E interactions \in LearnChoices :
        /\ op.args.running = "none" /\ op.args.learn_pc = "idle"
        /\ calls < MaxLoopUpdates
        /\ SetLearned(LearnedMap(user_learned_preferences, LoopUser))
        /\ op' = [op EXCEPT !.args.running = "learn",
                            !.args.learn_pc = "loop",
                            !.args.pending = interactions,
                            !.args.batch = interactions]
        /\ calls' = calls + 1
        /\ LoopFrame

\* one pass of `for interaction in interactions`
LearnStep ==
    /\ op.args.running = "learn" /\ op.args.learn_pc = "loop"
    /\ op.args.pending # <<>>
    /\ SetLearned(LearnOne(LearnedMap(user_learned_preferences, LoopUser),
                           Head(op.args.pending)))
    /\ op' = [op EXCEPT !.args.pending = Tail(@)]
    /\ UNCHANGED calls
    /\ LoopFrame

\* await self._apply_temporal_decay(user_id, interactions): reached
LearnAwait ==
    /\ op.args.running = "learn" /\ op.args.learn_pc = "loop"
    /\ op.args.pending = <<>>
    /\ op' = [op EXCEPT !.args.learn_pc = "decay",
                        !.args.running =
                            IF Suspends("_apply_temporal_decay")
                            THEN "none" ELSE "learn"]
    /\ UNCHANGED <<user_learned_preferences, calls>>
    /\ LoopFrame

\* _apply_temporal_decay runs and learn_from_interactions returns
LearnDecay ==
    /\ op.args.running \in {"learn", "none"} /\ op.args.learn_pc = "decay"
    /\ SetLearned(ApplyTemporalDecay(
                      LearnedMap(user_learned_preferences, LoopUser),
                      op.args.batch))
    /\ op' = [op EXCEPT !.args.learn_pc = "idle", !.args.running = "none",
                        !.args.whole =
                            @ \cup {user_learned_preferences'[LoopUser]}]
    /\ UNCHANGED calls
    /\ LoopFrame

\* update_preferences_from_feedback up to its await: the category and
\* attribute signals of the rated item
FeedbackEnter ==
    \E in \in LoopFeedbackChoices : \E k \in 1..Len(available_items) :
        LET item == available_items[k]
            w == FeedbackWeight(in[1])
            m == UpdateAttributePreferences(
                     AddCategories(
                         LearnedMap(user_learned_preferences, LoopUser),
                         item.categories, RMul(w, learning_rate)),
                     item, w)
        IN  /\ op.args.running = "none" /\ op.args.feedback_pc = "idle"
            /\ calls < MaxLoopUpdates
            /\ SetLearned(m)
            /\ op' = IF in[2] = None
                     THEN [op EXCEPT !.args.whole = @ \cup {m}]
                     ELSE [op EXCEPT
                             !.args.feedback_pc = "text",
                             !.args.feedback = in,
                             !.args.running =
                                 IF Suspends("_process_text_feedback")
                                 THEN "none" ELSE "feedback"]
            /\ calls' = calls + 1
            /\ LoopFrame

\* _process_text_feedback runs and update_preferences_from_feedback returns
FeedbackText ==
    /\ op.args.running \in {"feedback", "none"}
    /\ op.args.feedback_pc = "text"
    /\ SetLearned(ProcessTextFeedback(
                      LearnedMap(user_learned_preferences, LoopUser),
                      op.args.feedback[2], FeedbackWeight(op.args.feedback[1])))
    /\ op' = [op EXCEPT !.args.feedback_pc = "idle", !.args.running = "none",
                        !.args.feedback = None,
                        !.args.whole =
                            @ \cup {user_learned_preferences'[LoopUser]}]
    /\ UNCHANGED calls
    /\ LoopFrame

\* another request's get_learned_preferences (directly or through
\* predict_user_rating): prefs = dict(self.user_learned_preferences[user_id])
LoopRead ==
    /\ op.args.running = "none"
    /\ op' = [op EXCEPT !.result =
                 <<LearnedMap(user_learned_preferences, LoopUser)>>]
    /\ UNCHANGED <<user_learned_preferences, calls>>
    /\ LoopFrame

LoopNext ==
    \/ LearnEnter \/ LearnStep \/ LearnAwait \/ LearnDecay
    \/ FeedbackEnter \/ FeedbackText \/ LoopRead

SpecLoop == InitLoop /\ [][LoopNext]_vars

\* C26: a read of the learned map by a concurrent request of the same user
\* sees the map as it was before or after a whole learn_from_interactions
\* pass (every contribution and the decay) or a whole feedback update,
\* never a half-applied one.
C26_ReadsSeeWholeUpdates ==
    (op.name = "event_loop" /\ op.result # None)
        => op.result[1] \in op.args.whole

\* a read between two whole updates that changed the map: it sees the map
\* the first update left
C26_Witness ==
    /\ op.name = "event_loop" /\ op.result # None
    /\ calls = MaxLoopUpdates
    /\ op.args.running = "none"
    /\ Cardinality(op.args.whole) = 3
    /\ op.result[1] # LearnedMap(user_learned_preferences, LoopUser)
    /\ op.result[1] \in op.args.whole

\* the ids of everything ever stored for u, dropped entries included
EverIssuedTo(u, recommendation_id) ==
    \E k \in 1..Len(stored[u]) : stored[u][k].id = recommendation_id

\* the interaction process_feedback appended to u's profile
LastInteraction(u) ==
    InteractionHistory(user_profiles, u)[
        Len(InteractionHistory(user_profiles, u))]

\* feedback given on a response the caller's history holds though it has
\* expired
FeedbackOnExpired ==
    /\ op.name = "process_feedback"
    /\ IssuedTo(op.user_id, op.args.recommendation_id)
    /\ Issued(op.user_id, op.args.recommendation_id).valid_until < now
    /\ InteractionHistory(user_profiles, op.user_id) # <<>>
    /\ LastInteraction(op.user_id).timestamp = now
    /\ LastInteraction(op.user_id).context["recommendation_id"]
         = op.args.recommendation_id

\* feedback given on a response the cap has dropped from the caller's
\* history
FeedbackOnDropped ==
    /\ op.name = "process_feedback"
    /\ EverIssuedTo(op.user_id, op.args.recommendation_id)
    /\ ~IssuedTo(op.user_id, op.args.recommendation_id)
    /\ Len(History(op.user_id)) = HistoryCap

\* feedback given on a response only another user's history holds
FeedbackOnOthers ==
    /\ op.name = "process_feedback"
    /\ ~IssuedTo(op.user_id, op.args.recommendation_id)
    /\ \E v \in Users \ {op.user_id} :
          IssuedTo(v, op.args.recommendation_id)

\* C27: process_feedback resolves a recommendation id exactly when the
\* calling user's stored history holds a recommendation with that id.  If
\* it does, expired or not, the feedback is processed: one 'rate'
\* interaction for the item of that recommendation, carrying the id, is
\* appended to the caller's profile.  If it does not (the id was never
\* issued, was dropped by the 100-entry cap, or is only in another user's
\* history) the call returns without raising and changes nothing.
C27_ResolvesIffInCallersHistory ==
    [][op'.name = "process_feedback"
        => LET u == op'.user_id
               rid == op'.args.recommendation_id
               after == InteractionHistory(user_profiles', u)
           IN  /\ IssuedTo(u, rid)
                    => /\ Len(after)
                            = Len(InteractionHistory(user_profiles, u)) + 1
                       /\ after[Len(after)].interaction_type = "rate"
                       /\ after[Len(after)].item_id = Issued(u, rid).item
                       /\ after[Len(after)].context["recommendation_id"] = rid
               /\ ~IssuedTo(u, rid)
                    => /\ ~op'.raised
                       /\ UNCHANGED <<user_profiles, recommendation_history,
                                      user_learned_preferences,
                                      cf_user_profiles, user_similarities>>]_vars

\* a user with a full history gives feedback on the oldest response ever
\* stored for them, which the cap has dropped
C27_Witness == FeedbackOnDropped

\* the collaborative model as the engine holds it
CollaborativeModel ==
    [user_profiles |-> cf_user_profiles,
     user_similarities |-> user_similarities]

\* C28: under the engine's public operations the similarity table of the
\* collaborative model stays empty, so the collaborative score of every
\* item for every user is the default 0.5, whatever feedback was given.
C28_SimilarityTableStaysEmpty ==
    /\ user_similarities = EmptyMap
    /\ \A u \in Users : \A k \in 1..Len(available_items) :
          ScoreOrDefault(GenerateCollaborativeRecommendations(
                             CollaborativeModel, u, available_items[k]))
            = Rat(1, 2)

\* a request answered after the user's feedback reached the collaborative
\* model: the table is still empty
C28_Witness ==
    /\ op.name = "generate_recommendations"
    /\ op.result # <<>>
    /\ op.user_id \in DOMAIN cf_user_profiles
    /\ cf_user_profiles[op.user_id] # <<>>
    /\ user_similarities = EmptyMap

\* whatever the engine holds for user u: the profile, the stored
\* recommendation history and the learned-preference map
HeldFor(profiles, history, ulp, u) ==
    [profile |-> IF u \in DOMAIN profiles THEN <<profiles[u]>> ELSE <<>>,
     history |-> HistoryIn(history, u),
     learned |-> LearnedMap(ulp, u)]

\* C29: an engine operation issued for user A leaves, for every other user
\* B, the profile (preferences and interaction history), the stored
\* recommendation history and the learned-preference map as they were.
C29_OtherUsersUntouched ==
    [][\A b \in Users \ {op'.user_id} :
          HeldFor(user_profiles', recommendation_history',
                  user_learned_preferences', b)
            = HeldFor(user_profiles, recommendation_history,
                      user_learned_preferences, b)]_vars

\* feedback of one user resolved while another user has a profile, a
\* history and a learned map of their own
C29_Witness ==
    /\ op.name = "process_feedback"
    /\ IssuedTo(op.user_id, op.args.recommendation_id)
    /\ \E b \in Users \ {op.user_id} :
          /\ b \in DOMAIN user_profiles
          /\ History(b) # <<>>
          /\ b \in DOMAIN user_learned_preferences

\* the contribution of a history to each signal: what one pass over it
\* adds to the stored weights
ContributionOf(history) == LearnAll(EmptyMap, history)

LearningCalls == {"generate_recommendations", "update_user_preferences"}

\* C30 (as stated): each generate_recommendations or
\* update_user_preferences call adds the contribution c of the whole
\* interaction history to every stored signal w and then decays it, so that
\* w becomes 0.95 * (w + c) and the learned map changes when the history is
\* not empty; with an empty history the call leaves the learned map as it
\* was.
C30_LearningAccumulates ==
    [][op'.name \in LearningCalls
        => LET u == op'.user_id
               history == InteractionHistory(user_profiles, u)
               m == LearnedMap(user_learned_preferences, u)
               after == LearnedMap(user_learned_preferences', u)
               c == ContributionOf(history)
           IN  /\ history = <<>> => after = m
               /\ history # <<>>
                    => /\ after # m
                       /\ \A key \in DOMAIN m \cup DOMAIN c \cup DOMAIN after :
                             Weight(after, key)
                               = RMul(decay_factor,
                                      RAdd(Weight(m, key), Weight(c, key)))]_vars

\* C30 (as the code behaves): each generate_recommendations call, and each
\* update_user_preferences call that returns normally, adds the
\* contribution c of the whole interaction history to every stored signal
\* w and, the history not being empty, decays it: w becomes 0.95 * (w + c),
\* or 0 when that value is below 0.01 (any negative value included), and
\* the learned map changes.  With an empty history, and when
\* update_user_preferences raises on an invalid value before it reaches the
\* learner, the learned map is left as it was.
C30_LearningAccumulatesThenFloors ==
    [][op'.name \in LearningCalls
        => LET u == op'.user_id
               history == InteractionHistory(user_profiles, u)
               m == LearnedMap(user_learned_preferences, u)
               after == LearnedMap(user_learned_preferences', u)
               c == ContributionOf(history)
           IN  IF history = <<>> \/ op'.raised THEN after = m
               ELSE /\ after # m
                    /\ DOMAIN after = DOMAIN m \cup DOMAIN c
                    /\ \A key \in DOMAIN after :
                          LET decayed == RMul(Rat(95, 100),
                                              RAdd(Weight(m, key),
                                                   Weight(c, key)))
                          IN  after[key] = IF RLt(decayed, Rat(1, 100))
                                           THEN RZero ELSE decayed]_vars

\* a request of a user whose rating of 5 is in the history: the category
\* signal the feedback left at 0.1 gets the rating's 0.1 again and decays
\* to 0.19
C30_Witness ==
    /\ op.name = "generate_recommendations"
    /\ InteractionHistory(user_profiles, op.user_id) # <<>>
    /\ \E key \in DOMAIN LearnedMap(user_learned_preferences, op.user_id) :
          /\ key[1] = "category"
          /\ LearnedMap(user_learned_preferences, op.user_id)[key]
               = Rat(19, 100)

====
